---- MODULE Spec2Model ----
(***************************************************************************)
(* Model of the VPN mini-app backend (src/server/index.js, src/server/     *)
(* bot.js): the subscription ledger (grantSubscription), the server        *)
(* balancer (pickServerForUser / ensureUserServer), the payment handlers   *)
(* (APays callback, Stars confirm, Telegram webhook, crypto status poll)   *)
(* and the expiry notifier (runExpiryNotifierOnce).                        *)
(*                                                                         *)
(* The relational store is the shared state.  Every `await` of a handler   *)
(* is a point where another handler may run, so a handler is a sequence of *)
(* steps, one per database round trip; a handler's position and locals     *)
(* live in proc[i].  Time is in seconds since 2025-01-01T00:00:00Z and the *)
(* server and the database session are taken to run in UTC.                *)
(***************************************************************************)
EXTENDS Integers, Sequences, FiniteSets, TLC

VARIABLES
  now,                 \* the clock: Date.now() / now(), in seconds
  subscriptions,       \* user_id -> [plan, until]
  vless_clients,       \* user_id -> expires_at
  servers,             \* id -> [active, slot_limit]   (slot_limit 0 = null)
  server_allocations,  \* user_id -> server_id
  apays_orders,        \* order_id -> [user_id, plan, status]
  payments,            \* rows of payments, in insertion order
  sub_notifications,   \* set of <<user_id, kind, for_until>>
  purchases,           \* held by Telegram and NOWPayments: id -> [user, plan, kind, st]
  env,                 \* the deployment's environment: [webhookSecret]
  free_trials,         \* set of user_id: the users who claimed the free trial
  blocks,              \* user_id -> until of the block (0 = null: no end)
  proc,                \* handlers / scans in flight: position and locals
  nreq,                \* number of requests and scans started so far
  ticks,               \* number of clock advances so far
  grantLog,            \* history: the subscription upserts made, in order
  sentLog              \* history: the bot messages delivered, in order

vars == <<now, subscriptions, vless_clients, servers, server_allocations,
          apays_orders, payments, sub_notifications, purchases, env, free_trials, blocks, proc,
          nreq, ticks, grantLog, sentLog>>

tables == <<subscriptions, vless_clients, servers, server_allocations,
            apays_orders, payments, sub_notifications, purchases, env, free_trials, blocks>>

-----------------------------------------------------------------------------
(* Bounds of the model                                                     *)

MaxProcs == 2          \* handlers that may be in flight at once
MaxRequests == 2       \* requests started in one behaviour (pay specs)
MaxTicks == 1          \* clock advances in one behaviour
NumPayUsers == 2       \* users of the payment specifications
NumOrders == 1         \* APays orders / Stars purchases / crypto invoices
NumServers == 2        \* rows of servers
NumAllocUsers == 5     \* users of the balancer specifications
MaxSlotLimit == 2      \* largest finite slot_limit tried
NumNotifyUsers == 2    \* users of the notifier specifications
MaxScans == 3          \* notifier scans started in one behaviour
MaxSendFailures == 2   \* sends that fail in one behaviour of SpecNotifyLive

-----------------------------------------------------------------------------
(* Calendar arithmetic of the JavaScript Date object, in UTC               *)

DaySec == 24 * 60 * 60
HourSec == 60 * 60

Max(a, b) == IF a >= b THEN a ELSE b

IsLeap(y) == (y % 4 = 0 /\ y % 100 # 0) \/ y % 400 = 0

DaysInYear(y) == IF IsLeap(y) THEN 366 ELSE 365

\* m is a JavaScript month index, 0..11
DaysInMonth(y, m) ==
  CASE m = 1 -> IF IsLeap(y) THEN 29 ELSE 28
    [] m \in {3, 5, 8, 10} -> 30
    [] OTHER -> 31

RECURSIVE DaysBeforeYear(_)
DaysBeforeYear(y) ==
  IF y <= 2025 THEN 0 ELSE DaysBeforeYear(y - 1) + DaysInYear(y - 1)

RECURSIVE DaysBeforeMonth(_, _)
DaysBeforeMonth(y, m) ==
  IF m = 0 THEN 0 ELSE DaysBeforeMonth(y, m - 1) + DaysInMonth(y, m - 1)

RECURSIVE SplitYear(_, _)
SplitYear(y, d) ==
  IF d < DaysInYear(y) THEN <<y, d>> ELSE SplitYear(y + 1, d - DaysInYear(y))

RECURSIVE SplitMonth(_, _, _)
SplitMonth(y, m, d) ==
  IF d < DaysInMonth(y, m) THEN <<y, m, d + 1>>
  ELSE SplitMonth(y, m + 1, d - DaysInMonth(y, m))

\* day number -> <<getFullYear(), getMonth(), getDate()>>
Civil(day) == LET yd == SplitYear(2025, day) IN SplitMonth(yd[1], 0, yd[2])

\* ECMAScript MakeDay: month and day-of-month may overflow and are carried
MakeDay(y, m, dom) ==
  LET yy == y + (m \div 12)
      mm == m % 12
  IN  DaysBeforeYear(yy) + DaysBeforeMonth(yy, mm) + (dom - 1)

\* an instant: y-m-dom at sec seconds after midnight
At(y, m, dom, sec) == MakeDay(y, m, dom) * DaySec + sec

\* date(t) of Postgres: the calendar day of the instant t
DateOf(t) == t \div DaySec

\* d.setDate(d.getDate() + n)
setDate(t, n) == t + n * DaySec

\* d.setMonth(d.getMonth() + n)
setMonth(t, n) ==
  LET c == Civil(t \div DaySec)
  IN  MakeDay(c[1], c[2] + n, c[3]) * DaySec + (t % DaySec)

\* d.setFullYear(d.getFullYear() + n)
setFullYear(t, n) ==
  LET c == Civil(t \div DaySec)
  IN  MakeDay(c[1] + n, c[2], c[3]) * DaySec + (t % DaySec)

-----------------------------------------------------------------------------
(* Plans                                                                   *)

normalizePlan(p) ==
  CASE p = "7d" -> "w"
    [] p = "12m" -> "1y"
    [] OTHER -> p

\* clock is Date.now() at the moment of the call
addPlanToDate(plan, base, clock) ==
  LET d == Max(base, clock)
  IN  CASE plan = "w" -> setDate(d, 7)
        [] plan = "1m" -> setMonth(d, 1)
        [] plan = "3m" -> setMonth(d, 3)
        [] plan = "6m" -> setMonth(d, 6)
        [] plan = "1y" -> setFullYear(d, 1)
        [] OTHER -> setMonth(d, 1)

-----------------------------------------------------------------------------
(* Rows and tables                                                         *)

UpsertDoNothing(t, k, v) == [x \in DOMAIN t \cup {k} |-> IF x \in DOMAIN t THEN t[x] ELSE v]

\* insert ... on conflict (key) do update: the row of key k becomes v
Upsert(t, k, v) == [x \in DOMAIN t \cup {k} |-> IF x = k THEN v ELSE t[x]]

\* requireNotBlocked: a blocks row with until null (0) or in the future; the
\* request of a blocked user is answered 403 before its handler runs
Blocked(b, u, clock) == u \in DOMAIN b /\ (b[u] = 0 \/ b[u] > clock)

\* count(*) from server_allocations where server_id = sid
Occupancy(alloc, sid) == Cardinality({u \in DOMAIN alloc : alloc[u] = sid})

Procs == 1..MaxProcs

Idle == [op |-> "idle", pc |-> "idle", user |-> 0, plan |-> "", ref |-> 0,
         verified |-> FALSE, status |-> "", p |-> "", base |-> 0, until |-> 0,
         sid |-> 0, limit |-> 0, rows |-> <<>>, next |-> 0, resp |-> 0,
         note |-> "", kind |-> "", cands |-> <<>>]

\* a handler that has answered: its locals are dropped, its answer is kept
\* (and, of ensureUserServer, the server the call found the user on)
Done(r, resp, note) ==
  [Idle EXCEPT !.op = r.op, !.pc = "done", !.user = r.user, !.ref = r.ref,
               !.resp = resp, !.note = note, !.next = r.next, !.sid = r.sid]

Free(i) == proc[i].pc \in {"idle", "done"}

-----------------------------------------------------------------------------
(* pickServerForUser and ensureUserServer                                  *)

\* the loop's test `if (limit && used >= limit) continue`, negated
HasFreeSlotOffByOne(used, limit) == ~(limit # 0 /\ used > limit)
HasFreeSlot(used, limit) == ~(limit # 0 /\ used >= limit)

\* ensureUserServer keeps the current server: `!slot_limit || used <= slot_limit`
KeepsCurrentStrict(used, limit) == limit = 0 \/ used < limit
KeepsCurrent(used, limit) == limit = 0 \/ used <= limit

\* the recorded server is still usable: `s.rowCount && s.rows[0].active`
CurrentUsableAny(srv, sid) == sid \in DOMAIN srv
CurrentUsable(srv, sid) == sid \in DOMAIN srv /\ srv[sid].active

\* q.rows: the active servers, ordered by created_at (the order of their ids)
RECURSIVE ActiveRows(_, _)
ActiveRows(srv, k) ==
  IF k > NumServers THEN <<>>
  ELSE IF k \notin DOMAIN srv THEN ActiveRows(srv, k + 1)
  ELSE IF srv[k].active
       THEN <<[id |-> k, slot_limit |-> srv[k].slot_limit]>> \o ActiveRows(srv, k + 1)
       ELSE ActiveRows(srv, k + 1)

RECURSIVE PickLoopLastOnTies(_, _, _, _, _)
PickLoopLastOnTies(rows, alloc, k, best, bestLoad) ==
  IF k > Len(rows) THEN best
  ELSE LET s == rows[k]
           used == Cardinality({u \in DOMAIN alloc : alloc[u] = s.id})
       IN  IF s.slot_limit # 0 /\ used >= s.slot_limit
           THEN PickLoopLastOnTies(rows, alloc, k + 1, best, bestLoad)
           ELSE IF bestLoad = -1 \/ used <= bestLoad
                THEN PickLoopLastOnTies(rows, alloc, k + 1, s.id, used)
                ELSE PickLoopLastOnTies(rows, alloc, k + 1, best, bestLoad)

\* the loop over q.rows: least used server with a free slot, first one on ties.
\* best = 0 stands for null, bestLoad = -1 for Infinity
RECURSIVE PickLoop(_, _, _, _, _)
PickLoop(rows, alloc, k, best, bestLoad) ==
  IF k > Len(rows) THEN best
  ELSE LET s == rows[k]
           used == Occupancy(alloc, s.id)
       IN  IF ~HasFreeSlot(used, s.slot_limit)
           THEN PickLoop(rows, alloc, k + 1, best, bestLoad)
           ELSE IF bestLoad = -1 \/ used < bestLoad
                THEN PickLoop(rows, alloc, k + 1, s.id, used)
                ELSE PickLoop(rows, alloc, k + 1, best, bestLoad)

EnsureReturnRaises(r, result) ==
  IF result = 0 THEN Done(r, 500, "server error")
  ELSE IF r.op = "ensure" THEN Done([r EXCEPT !.next = result], 0, "assigned")
  ELSE [r EXCEPT !.pc = "g_notify", !.sid = 0, !.limit = 0, !.rows = <<>>,
                 !.next = result]

\* ensureUserServer returns `result` to its caller: the call is over when it was
\* made on its own, and grantSubscription goes on to notifySubActivated
EnsureReturn(r, result) ==
  IF r.op = "ensure"
  THEN Done([r EXCEPT !.next = result], 0, IF result = 0 THEN "null" ELSE "assigned")
  ELSE [r EXCEPT !.pc = "g_notify", !.sid = 0, !.limit = 0, !.rows = <<>>,
                 !.next = result]

\* select server_id from server_allocations where user_id = $1
EnsureCur(i) ==
  /\ proc[i].pc = "e_cur"
  /\ LET r == proc[i] IN
       proc' = [proc EXCEPT ![i] =
         IF r.user \in DOMAIN server_allocations
         THEN [r EXCEPT !.pc = "e_srv", !.sid = server_allocations[r.user]]
         ELSE [r EXCEPT !.pc = "p_srv"]]
  /\ UNCHANGED <<now, tables, nreq, ticks, grantLog, sentLog>>

\* select active, slot_limit from servers where id = $1
EnsureSrv(i) ==
  /\ proc[i].pc = "e_srv"
  /\ LET r == proc[i] IN
       proc' = [proc EXCEPT ![i] =
         IF CurrentUsable(servers, r.sid)
         THEN [r EXCEPT !.pc = "e_cnt", !.limit = servers[r.sid].slot_limit]
         ELSE [r EXCEPT !.pc = "p_srv"]]
  /\ UNCHANGED <<now, tables, nreq, ticks, grantLog, sentLog>>

\* select count(*) ... where server_id = $1, then the slot_limit test against
\* the limit read by the previous query
EnsureCnt(i) ==
  /\ proc[i].pc = "e_cnt"
  /\ LET r == proc[i]
         used == Occupancy(server_allocations, r.sid)
     IN  proc' = [proc EXCEPT ![i] =
           IF KeepsCurrent(used, r.limit)
           THEN EnsureReturn(r, r.sid)
           ELSE [r EXCEPT !.pc = "p_srv"]]
  /\ UNCHANGED <<now, tables, nreq, ticks, grantLog, sentLog>>

\* pickServerForUser, first query: the active servers
PickSrv(i) ==
  /\ proc[i].pc = "p_srv"
  /\ LET r == proc[i]
         rows == ActiveRows(servers, 1)
     IN  proc' = [proc EXCEPT ![i] =
           IF rows = <<>> THEN EnsureReturn(r, 0)
           ELSE [r EXCEPT !.pc = "p_fill", !.rows = rows]]
  /\ UNCHANGED <<now, tables, nreq, ticks, grantLog, sentLog>>

PickFillDropsStale(i) ==
  /\ proc[i].pc = "p_fill"
  /\ LET r == proc[i]
         best == PickLoop(r.rows, server_allocations, 1, 0, -1)
     IN  /\ proc' = [proc EXCEPT ![i] =
              IF best = 0 THEN EnsureReturn(r, 0)
              ELSE [r EXCEPT !.pc = "e_upsert", !.next = best]]
         /\ server_allocations' =
              IF best = 0
              THEN [x \in DOMAIN server_allocations \ {r.user} |-> server_allocations[x]]
              ELSE server_allocations
  /\ UNCHANGED <<now, subscriptions, vless_clients, servers, apays_orders, payments,
                 sub_notifications, purchases, env, free_trials, blocks, nreq, ticks,
                 grantLog, sentLog>>

\* pickServerForUser, second query (the fill) and the loop; then
\* ensureUserServer's `if (!next) return null`
PickFill(i) ==
  /\ proc[i].pc = "p_fill"
  /\ LET r == proc[i]
         best == PickLoop(r.rows, server_allocations, 1, 0, -1)
     IN  proc' = [proc EXCEPT ![i] =
           IF best = 0 THEN EnsureReturn(r, 0)
           ELSE [r EXCEPT !.pc = "e_upsert", !.next = best]]
  /\ UNCHANGED <<now, tables, nreq, ticks, grantLog, sentLog>>

\* insert into server_allocations ... on conflict (user_id) do update
EnsureUpsert(i) ==
  /\ proc[i].pc = "e_upsert"
  /\ LET r == proc[i] IN
       /\ server_allocations' = Upsert(server_allocations, r.user, r.next)
       /\ proc' = [proc EXCEPT ![i] = EnsureReturn(r, r.next)]
  /\ UNCHANGED <<now, subscriptions, vless_clients, servers, apays_orders,
                 payments, sub_notifications, purchases, env, free_trials, blocks, nreq, ticks, grantLog, sentLog>>

EnsureStep(i) ==
  \/ EnsureCur(i)
  \/ EnsureSrv(i)
  \/ EnsureCnt(i)
  \/ PickSrv(i)
  \/ PickFill(i)
  \/ EnsureUpsert(i)

-----------------------------------------------------------------------------
(* grantSubscription                                                       *)

GrantBaseStale(subs, user, clock) ==
  IF user \in DOMAIN subs THEN subs[user].until ELSE clock

\* the base of an extension: the stored until when it is in the future, else now
GrantBase(subs, user, clock) ==
  IF user \in DOMAIN subs /\ subs[user].until > clock
  THEN subs[user].until ELSE clock

\* a call grantSubscription(user, plan) begins: p = normalizePlan(String(plan))
CallGrant(r) == [r EXCEPT !.pc = "g_read", !.p = normalizePlan(r.plan)]

\* select plan, until from subscriptions; base and until are computed from it
\* (base is kept until the upsert, for the history only)
GrantRead(i) ==
  /\ proc[i].pc = "g_read"
  /\ LET r == proc[i]
         base == GrantBase(subscriptions, r.user, now)
     IN  proc' = [proc EXCEPT ![i] =
           [r EXCEPT !.pc = "g_upsert", !.base = base,
                     !.until = addPlanToDate(r.p, base, now)]]
  /\ UNCHANGED <<now, tables, nreq, ticks, grantLog, sentLog>>

\* insert into subscriptions ... on conflict (user_id) do update
GrantUpsert(i) ==
  /\ proc[i].pc = "g_upsert"
  /\ LET r == proc[i] IN
       /\ subscriptions' = Upsert(subscriptions, r.user, [plan |-> r.p, until |-> r.until])
       /\ grantLog' = Append(grantLog, [user |-> r.user, op |-> r.op, ref |-> r.ref,
                                        verified |-> r.verified, plan |-> r.p,
                                        base |-> r.base, until |-> r.until])
       /\ proc' = [proc EXCEPT ![i] = [r EXCEPT !.pc = "g_vread", !.base = 0]]
  /\ UNCHANGED <<now, vless_clients, servers, server_allocations, apays_orders,
                 payments, sub_notifications, purchases, env, free_trials, blocks, nreq, ticks, sentLog>>

\* select uuid from vless_clients: the uuid is kept or made, nothing is written
GrantVlessRead(i) ==
  /\ proc[i].pc = "g_vread"
  /\ proc' = [proc EXCEPT ![i] = [proc[i] EXCEPT !.pc = "g_vupsert"]]
  /\ UNCHANGED <<now, tables, nreq, ticks, grantLog, sentLog>>

GrantVlessUpsertNoEnsure(i) ==
  /\ proc[i].pc = "g_vupsert"
  /\ LET r == proc[i] IN
       /\ vless_clients' = Upsert(vless_clients, r.user, r.until)
       /\ proc' = [proc EXCEPT ![i] = [r EXCEPT !.pc = "g_notify"]]
  /\ UNCHANGED <<now, subscriptions, servers, server_allocations, apays_orders,
                 payments, sub_notifications, purchases, env, free_trials, blocks, nreq, ticks, grantLog, sentLog>>

\* insert into vless_clients ... on conflict do update set expires_at; then
\* ensureUserServer(userId) is called
GrantVlessUpsert(i) ==
  /\ proc[i].pc = "g_vupsert"
  /\ LET r == proc[i] IN
       /\ vless_clients' = Upsert(vless_clients, r.user, r.until)
       /\ proc' = [proc EXCEPT ![i] = [r EXCEPT !.pc = "e_cur"]]
  /\ UNCHANGED <<now, subscriptions, servers, server_allocations, apays_orders,
                 payments, sub_notifications, purchases, env, free_trials, blocks, nreq, ticks, grantLog, sentLog>>

\* a row of payments (dbRecordPayment); ref tags the row with the purchase it
\* was recorded for and is not a column of the table
PaymentRow(r) == [user_id |-> r.user, plan |-> r.plan, ref |-> r.ref, op |-> r.op]

\* what the caller does once grantSubscription has returned
AfterGrant(r) ==
  CASE r.op = "apays" -> Done(r, 200, "granted")
    [] r.op = "confirm" -> [r EXCEPT !.pc = "c_pay"]
    [] r.op = "webhook" -> Done(r, 200, "granted")
    [] r.op = "crypto" -> Done(r, 200, "activated")
    [] r.op = "admin_grant" -> Done(r, 200, "granted")
    [] r.op = "trial" -> Done(r, 200, "granted")
    [] OTHER -> Done(r, 0, "granted")

\* notifySubActivated: a failure of the send is caught and logged, so both
\* outcomes continue alike; grantSubscription returns until
GrantNotify(i) ==
  /\ proc[i].pc = "g_notify"
  /\ proc' = [proc EXCEPT ![i] = AfterGrant(proc[i])]
  /\ UNCHANGED <<now, tables, nreq, ticks, grantLog, sentLog>>

GrantStep(i) ==
  \/ GrantRead(i)
  \/ GrantUpsert(i)
  \/ GrantVlessRead(i)
  \/ GrantVlessUpsert(i)
  \/ EnsureStep(i)
  \/ GrantNotify(i)

\* the clock advances by an hour
Tick ==
  /\ ticks < MaxTicks
  /\ now' = now + HourSec
  /\ ticks' = ticks + 1
  /\ UNCHANGED <<tables, proc, nreq, grantLog, sentLog>>

-----------------------------------------------------------------------------
(* POST /api/pay/card and POST /api/pay/apays-callback                     *)

PayUsers == 1..NumPayUsers
OrderIds == 1..NumOrders
PayPlans == {"7d", "1m"}

\* /api/pay/card for a verified user: the draft order is stored with status
\* 'new'.  The calls to APays around the insert write nothing modelled here.
PayCard(u, plan) ==
  /\ ~Blocked(blocks, u, now)
  /\ \E o \in OrderIds :
       /\ o \notin DOMAIN apays_orders
       /\ \A k \in OrderIds : k < o => k \in DOMAIN apays_orders
       /\ apays_orders' = Upsert(apays_orders, o,
                                 [user_id |-> u, plan |-> plan, status |-> "new"])
  /\ UNCHANGED <<now, subscriptions, vless_clients, servers, server_allocations,
                 payments, sub_notifications, purchases, env, free_trials, blocks, proc, nreq, ticks,
                 grantLog, sentLog>>

\* a callback arrives: body {order_id, status, sign}; signOk says whether sign
\* is md5(order_id:status:secret); status "" stands for a missing field
StartApays(i, o, status, signOk) ==
  /\ Free(i)
  /\ nreq < MaxRequests
  /\ proc' = [proc EXCEPT ![i] =
       [Idle EXCEPT !.op = "apays", !.pc = "a_read", !.ref = o,
                    !.status = status, !.verified = signOk]]
  /\ nreq' = nreq + 1
  /\ UNCHANGED <<now, tables, ticks, grantLog, sentLog>>

\* `if (q.rows[0].st === 'paid') return res.status(200).send('ok')`
AlreadyProcessedNever(row) == FALSE
AlreadyProcessed(row) == row.status = "paid"

ApaysReadUnsigned(i) ==
  /\ proc[i].pc = "a_read"
  /\ LET r == proc[i] IN
       proc' = [proc EXCEPT ![i] =
         IF r.status = "" THEN Done(r, 400, "bad")
         ELSE IF r.ref \notin DOMAIN apays_orders THEN Done(r, 404, "not found")
         ELSE IF AlreadyProcessed(apays_orders[r.ref]) THEN Done(r, 200, "already")
         ELSE IF r.status = "approved"
              THEN [r EXCEPT !.pc = "a_mark", !.user = apays_orders[r.ref].user_id,
                             !.plan = apays_orders[r.ref].plan]
              ELSE [r EXCEPT !.pc = "a_fail"]]
  /\ UNCHANGED <<now, tables, nreq, ticks, grantLog, sentLog>>

\* the field and signature checks, then select ... from apays_orders
ApaysRead(i) ==
  /\ proc[i].pc = "a_read"
  /\ LET r == proc[i] IN
       proc' = [proc EXCEPT ![i] =
         IF r.status = "" THEN Done(r, 400, "bad")
         ELSE IF ~r.verified THEN Done(r, 400, "bad sign")
         ELSE IF r.ref \notin DOMAIN apays_orders THEN Done(r, 404, "not found")
         ELSE IF AlreadyProcessed(apays_orders[r.ref]) THEN Done(r, 200, "already")
         ELSE IF r.status = "approved"
              THEN [r EXCEPT !.pc = "a_mark", !.user = apays_orders[r.ref].user_id,
                             !.plan = apays_orders[r.ref].plan]
              ELSE [r EXCEPT !.pc = "a_fail"]]
  /\ UNCHANGED <<now, tables, nreq, ticks, grantLog, sentLog>>

\* update apays_orders set status='paid', paid_at=now() where order_id=$1
ApaysMark(i) ==
  /\ proc[i].pc = "a_mark"
  /\ apays_orders' = [apays_orders EXCEPT ![proc[i].ref].status = "paid"]
  /\ proc' = [proc EXCEPT ![i] = [proc[i] EXCEPT !.pc = "a_pay"]]
  /\ UNCHANGED <<now, subscriptions, vless_clients, servers, server_allocations,
                 payments, sub_notifications, purchases, env, free_trials, blocks, nreq, ticks,
                 grantLog, sentLog>>

\* dbRecordPayment(user_id, plan, 0, amount_rub), then grantSubscription is called
ApaysPay(i) ==
  /\ proc[i].pc = "a_pay"
  /\ payments' = Append(payments, PaymentRow(proc[i]))
  /\ proc' = [proc EXCEPT ![i] = CallGrant(proc[i])]
  /\ UNCHANGED <<now, subscriptions, vless_clients, servers, server_allocations,
                 apays_orders, sub_notifications, purchases, env, free_trials, blocks, nreq, ticks,
                 grantLog, sentLog>>

\* update apays_orders set status='failed' where order_id=$1
ApaysFail(i) ==
  /\ proc[i].pc = "a_fail"
  /\ apays_orders' = [apays_orders EXCEPT ![proc[i].ref].status = "failed"]
  /\ proc' = [proc EXCEPT ![i] = Done(proc[i], 200, "failed")]
  /\ UNCHANGED <<now, subscriptions, vless_clients, servers, server_allocations,
                 payments, sub_notifications, purchases, env, free_trials, blocks, nreq, ticks,
                 grantLog, sentLog>>

-----------------------------------------------------------------------------
(* Telegram Stars: the bot's relay, POST /api/pay/confirm, POST /api/tg/webhook *)

\* the bot parses invoice_payload as "plan=..;userId=..": a payload of
\* /api/pay/stars gives its plan, a JSON payload of /api/pay/invoice gives no
\* plan key, so `p.plan || "1m"` applies
RelayPlan(pu) == IF pu.kind = "stars_kv" THEN pu.plan ELSE "1m"

\* bot.on("message:successful_payment"): the update of purchase k reaches the
\* bot, which posts {userId, plan} to /api/pay/confirm; the handler runs up to
\* grantSubscription's first query.  The request carries no credential.
BotRelay(i, k) ==
  /\ Free(i)
  /\ nreq < MaxRequests
  /\ k \in DOMAIN purchases
  /\ purchases[k].kind \in {"stars_kv", "stars_json"}
  /\ proc' = [proc EXCEPT ![i] =
       CallGrant([Idle EXCEPT !.op = "confirm", !.user = purchases[k].user,
                              !.plan = RelayPlan(purchases[k]), !.ref = k])]
  /\ nreq' = nreq + 1
  /\ UNCHANGED <<now, tables, ticks, grantLog, sentLog>>

\* POST /api/pay/confirm sent by anyone: a body {userId, plan} and no purchase
ForgedConfirm(i, u, plan) ==
  /\ Free(i)
  /\ nreq < MaxRequests
  /\ proc' = [proc EXCEPT ![i] =
       CallGrant([Idle EXCEPT !.op = "confirm", !.user = u, !.plan = plan])]
  /\ nreq' = nreq + 1
  /\ UNCHANGED <<now, tables, ticks, grantLog, sentLog>>

\* dbRecordPayment(userId, code, stars, 0) after the grant, then res.json
ConfirmPay(i) ==
  /\ proc[i].pc = "c_pay"
  /\ payments' = Append(payments, PaymentRow(proc[i]))
  /\ proc' = [proc EXCEPT ![i] = Done(proc[i], 200, "granted")]
  /\ UNCHANGED <<now, subscriptions, vless_clients, servers, server_allocations,
                 apays_orders, sub_notifications, purchases, env, free_trials, blocks, nreq, ticks,
                 grantLog, sentLog>>

\* `if (TG_WEBHOOK_SECRET && hdr !== TG_WEBHOOK_SECRET) return res.sendStatus(403)`
WebhookRefused(secretSet, hdrOk) == secretSet /\ ~hdrOk

\* an update with successful_payment arrives at /api/tg/webhook.  k > 0: the
\* update of purchase k, with its payload; k = 0: an update posted by anyone,
\* with a payload {t:'sub', uid:u, plan}.  hdrOk: the secret header is right.
\* A payload that is not JSON, or lacks t/uid/plan, is answered 200 at once.
StartWebhook(i, k, u, plan, hdrOk) ==
  /\ Free(i)
  /\ nreq < MaxRequests
  /\ hdrOk => env.webhookSecret
  /\ k # 0 => /\ k \in DOMAIN purchases
              /\ purchases[k].kind \in {"stars_kv", "stars_json"}
              /\ u = purchases[k].user
              /\ plan = purchases[k].plan
  /\ LET r == [Idle EXCEPT !.op = "webhook", !.user = u, !.plan = plan, !.ref = k,
                           !.verified = hdrOk]
     IN  proc' = [proc EXCEPT ![i] =
           IF WebhookRefused(env.webhookSecret, hdrOk) THEN Done(r, 403, "forbidden")
           ELSE IF k # 0 /\ purchases[k].kind = "stars_kv" THEN Done(r, 200, "ignored")
           ELSE [r EXCEPT !.pc = "w_pay"]]
  /\ nreq' = nreq + 1
  /\ UNCHANGED <<now, tables, ticks, grantLog, sentLog>>

\* dbRecordPayment(userId, plan, stars, null), then grantSubscription is called
WebhookPay(i) ==
  /\ proc[i].pc = "w_pay"
  /\ payments' = Append(payments, PaymentRow(proc[i]))
  /\ proc' = [proc EXCEPT ![i] = CallGrant(proc[i])]
  /\ UNCHANGED <<now, subscriptions, vless_clients, servers, server_allocations,
                 apays_orders, sub_notifications, purchases, env, free_trials, blocks, nreq, ticks,
                 grantLog, sentLog>>

-----------------------------------------------------------------------------
(* GET /api/pay/crypto/status                                              *)

\* the poll of invoice k by the verified user me (requireNotBlocked passed)
StartCrypto(i, me, k) ==
  /\ ~Blocked(blocks, me, now)
  /\ Free(i)
  /\ nreq < MaxRequests
  /\ k \in DOMAIN purchases
  /\ purchases[k].kind = "crypto"
  /\ proc' = [proc EXCEPT ![i] =
       [Idle EXCEPT !.op = "crypto", !.pc = "k_fetch", !.user = me, !.ref = k,
                    !.verified = TRUE]]
  /\ nreq' = nreq + 1
  /\ UNCHANGED <<now, tables, ticks, grantLog, sentLog>>

\* the invoice is fetched from NOWPayments; a finished invoice whose order_id
\* "sub|plan|uid|ts" names the caller goes on to getRubPrice and the payment
CryptoFetch(i) ==
  /\ proc[i].pc = "k_fetch"
  /\ LET r == proc[i]
         inv == purchases[r.ref]
     IN  proc' = [proc EXCEPT ![i] =
           IF inv.st \in {"finished", "confirmed", "paid"} /\ inv.user = r.user
           THEN [r EXCEPT !.pc = "k_pay", !.plan = inv.plan]
           ELSE Done(r, 200, "not activated")]
  /\ UNCHANGED <<now, tables, nreq, ticks, grantLog, sentLog>>

\* dbRecordPayment(me.id, plan, 0, priceRub || 0), then grantSubscription is called
CryptoPay(i) ==
  /\ proc[i].pc = "k_pay"
  /\ payments' = Append(payments, PaymentRow(proc[i]))
  /\ proc' = [proc EXCEPT ![i] = CallGrant(proc[i])]
  /\ UNCHANGED <<now, subscriptions, vless_clients, servers, server_allocations,
                 apays_orders, sub_notifications, purchases, env, free_trials, blocks, nreq, ticks,
                 grantLog, sentLog>>

-----------------------------------------------------------------------------
(* POST /admin/sub/grant                                                   *)

AdminPlans == {"w", "1m"}

\* an admin (requireAdmin passed) grants plan to userId: the handler is a bare
\* call of grantSubscription, answered with its result
StartAdminGrant(i, u, plan) ==
  /\ Free(i)
  /\ nreq < MaxRequests
  /\ proc' = [proc EXCEPT ![i] =
       CallGrant([Idle EXCEPT !.op = "admin_grant", !.user = u, !.plan = plan,
                              !.verified = TRUE])]
  /\ nreq' = nreq + 1
  /\ UNCHANGED <<now, tables, ticks, grantLog, sentLog>>

-----------------------------------------------------------------------------
(* Initial states                                                          *)

NoRows == [x \in {} |-> 0]

\* a request takes the lowest free handler slot
Slot(i) == Free(i) /\ \A j \in Procs : j < i => ~Free(j)

\* the pool of the payment specifications: one slot on server 1, server 2 unlimited
PayServers == [k \in 1..NumServers |->
                 [active |-> TRUE, slot_limit |-> IF k = 1 THEN 1 ELSE 0]]

PayStartTimes == {At(2025, 0, 31, 12 * HourSec)}

\* what a paying user may already hold: nothing, or a subscription (expired or
\* running) that an earlier grant wrote together with the allocation it made
InitHolding(clock, users) ==
  {[subs |-> NoRows, alloc |-> NoRows]} \cup
  {[subs |-> [u \in {v} |-> [plan |-> "1m", until |-> t]],
    alloc |-> [u \in {v} |-> 1]] :
     v \in users, t \in {clock - DaySec, clock + 2 * DaySec}}

\* nothing in flight, nothing logged, no order, payment, notification,
\* claimed trial or block yet
InitQuiet ==
  /\ apays_orders = NoRows
  /\ free_trials = {}
  /\ blocks = [x \in {} |-> 0]
  /\ payments = <<>>
  /\ sub_notifications = {}
  /\ proc = [i \in Procs |-> Idle]
  /\ nreq = 0
  /\ ticks = 0
  /\ grantLog = <<>>
  /\ sentLog = <<>>

\* the ledger and the pool of the payment specifications
InitLedger ==
  /\ now \in PayStartTimes
  /\ \E h \in InitHolding(now, {1}) :
       /\ subscriptions = h.subs
       /\ server_allocations = h.alloc
  /\ vless_clients = [u \in DOMAIN subscriptions |-> subscriptions[u].until]
  /\ servers = PayServers

InitPay ==
  /\ InitQuiet
  /\ InitLedger
  /\ purchases = NoRows
  /\ env = [webhookSecret |-> FALSE]

-----------------------------------------------------------------------------
(* SpecApays: card orders and their callbacks, handled concurrently        *)

NextApays ==
  \/ \E u \in PayUsers, plan \in PayPlans : PayCard(u, plan)
  \/ \E i \in Procs, o \in OrderIds, status \in {"approved", "declined"},
        signOk \in BOOLEAN : Slot(i) /\ StartApays(i, o, status, signOk)
  \/ \E i \in Procs : ApaysRead(i)
  \/ \E i \in Procs : ApaysMark(i)
  \/ \E i \in Procs : ApaysPay(i)
  \/ \E i \in Procs : ApaysFail(i)
  \/ \E i \in Procs : GrantStep(i)

SpecApays == InitPay /\ [][NextApays]_vars

\* the subscription upserts made by handlers of kind op for purchase / order k
Credits(op, k) ==
  Cardinality({n \in 1..Len(grantLog) : grantLog[n].op = op /\ grantLog[n].ref = k})

Quiescent == \A i \in Procs : Free(i)

\* C1: however often and however interleaved the approved confirmation of one
\* order is handled, the subscription is extended once: no order is credited
\* twice, and when every handler has answered and the order's credits are the
\* only ones made, until is the value the first credit wrote.
C1_ConfirmationAppliedOnce ==
  \A o \in DOMAIN apays_orders :
    /\ Credits("apays", o) <= 1
    /\ (/\ Quiescent
        /\ grantLog # <<>>
        /\ \A n \in 1..Len(grantLog) : grantLog[n].ref = o)
       => subscriptions[apays_orders[o].user_id].until = grantLog[1].until

\* C3: a valid confirmation that finds its order already paid is answered 200
\* at once, and that step changes no order, payment, subscription, client or
\* allocation.
C3_RedeliveryIsNoOp ==
  [][\A i \in Procs :
       (/\ proc[i].pc = "a_read"
        /\ proc'[i] # proc[i]
        /\ proc[i].status # ""
        /\ proc[i].verified
        /\ proc[i].ref \in DOMAIN apays_orders
        /\ apays_orders[proc[i].ref].status = "paid")
       => /\ proc'[i].pc = "done"
          /\ proc'[i].resp = 200
          /\ UNCHANGED <<apays_orders, payments, subscriptions, vless_clients,
                         server_allocations>>]_vars

\* C3 witness: the first handling of an order has completed and credited it,
\* and a re-delivery has been answered 200 as already processed
C3_Witness ==
  \E i \in Procs :
    /\ proc[i].pc = "done" /\ proc[i].note = "already" /\ proc[i].resp = 200
    /\ Quiescent
    /\ Credits("apays", proc[i].ref) = 1
    /\ apays_orders[proc[i].ref].status = "paid"

-----------------------------------------------------------------------------
(* SpecGrant: grantSubscription called concurrently (admin grants)         *)

NextGrant ==
  \/ \E i \in Procs, u \in PayUsers, plan \in AdminPlans :
       Slot(i) /\ StartAdminGrant(i, u, plan)
  \/ \E i \in Procs : GrantStep(i)
  \/ Tick

SpecGrant == InitPay /\ [][NextGrant]_vars

\* the entries of grantLog before the n-th that are for the same user
Earlier(n) == {m \in 1..(n - 1) : grantLog[m].user = grantLog[n].user}

\* the largest element of a non-empty set of numbers
Last(S) == CHOOSE m \in S : \A k \in S : k <= m

\* C2: concurrent extensions of one user, each for its own purchase, all
\* count: every extension written builds on the one written before it for that
\* user, so after two of them until is the starting base plus both durations.
C2_NoLostExtension ==
  \A n \in 1..Len(grantLog) :
    Earlier(n) # {} =>
      grantLog[n].until =
        addPlanToDate(grantLog[n].plan, grantLog[Last(Earlier(n))].until, now)

-----------------------------------------------------------------------------
(* SpecStars: Telegram Stars purchases reported by the bot and the webhook *)

StarsPurchases ==
  [kind : {"stars_kv", "stars_json"}, user : PayUsers, plan : PayPlans,
   st : {"paid"}]

InitStars ==
  /\ InitQuiet
  /\ InitLedger
  /\ \E f \in [OrderIds -> StarsPurchases] : purchases = f
  /\ \E b \in BOOLEAN : env = [webhookSecret |-> b]


NextStars ==
  \/ \E i \in Procs, k \in OrderIds : Slot(i) /\ BotRelay(i, k)
  \/ \E i \in Procs, u \in PayUsers, plan \in PayPlans :
       Slot(i) /\ ForgedConfirm(i, u, plan)
  \/ \E i \in Procs, k \in {0} \cup OrderIds, u \in PayUsers, plan \in PayPlans,
        hdrOk \in BOOLEAN : Slot(i) /\ StartWebhook(i, k, u, plan, hdrOk)
  \/ \E i \in Procs : ConfirmPay(i)
  \/ \E i \in Procs : WebhookPay(i)
  \/ \E i \in Procs : GrantStep(i)

SpecStars == InitStars /\ [][NextStars]_vars

\* C4: a Stars purchase is credited once, whichever of the bot's relay and the
\* webhook reports it and however often.
C4_StarsCreditedOnce ==
  \A k \in DOMAIN purchases : Credits("confirm", k) + Credits("webhook", k) <= 1

\* C6: no subscription is extended on a request that carries neither a valid
\* credential nor a purchase: a bare user id in a body extends nothing.
C6_OnlyVerifiedExtensions ==
  \A n \in 1..Len(grantLog) : grantLog[n].verified \/ grantLog[n].ref # 0

-----------------------------------------------------------------------------
(* SpecCrypto: NOWPayments invoices polled by their owners                 *)

CryptoInvoices ==
  [kind : {"crypto"}, user : PayUsers, plan : PayPlans, st : {"waiting", "finished"}]

InitCrypto ==
  /\ InitQuiet
  /\ InitLedger
  /\ \E f \in [OrderIds -> CryptoInvoices] : purchases = f
  /\ env = [webhookSecret |-> FALSE]

NextCrypto ==
  \/ \E i \in Procs, me \in PayUsers, k \in OrderIds : Slot(i) /\ StartCrypto(i, me, k)
  \/ \E i \in Procs : CryptoFetch(i)
  \/ \E i \in Procs : CryptoPay(i)
  \/ \E i \in Procs : GrantStep(i)

SpecCrypto == InitCrypto /\ [][NextCrypto]_vars

\* the payments recorded by handlers of kind op for purchase k
Recorded(op, k) ==
  Cardinality({n \in 1..Len(payments) : payments[n].op = op /\ payments[n].ref = k})

\* C5: however often the owner polls a finished invoice, it is credited once
\* and one payment is recorded for it.
C5_InvoiceCreditedOnce ==
  \A k \in DOMAIN purchases :
    Credits("crypto", k) <= 1 /\ Recorded("crypto", k) <= 1

-----------------------------------------------------------------------------
(* SpecAllocSeq, SpecAllocConc: ensureUserServer called on its own         *)

AllocUsers == 1..NumAllocUsers

\* a call ensureUserServer(u) begins
StartEnsure(i, u) ==
  /\ Free(i)
  /\ proc' = [proc EXCEPT ![i] = [Idle EXCEPT !.op = "ensure", !.pc = "e_cur", !.user = u]]
  /\ UNCHANGED <<now, tables, nreq, ticks, grantLog, sentLog>>

\* any pool of servers, fixed from then on; no allocation yet
InitAlloc ==
  /\ InitQuiet
  /\ now \in PayStartTimes
  /\ subscriptions = NoRows
  /\ vless_clients = NoRows
  /\ servers \in [1..NumServers -> [active : BOOLEAN, slot_limit : 0..MaxSlotLimit]]
  /\ server_allocations = NoRows
  /\ purchases = NoRows
  /\ env = [webhookSecret |-> FALSE]

\* one call at a time
NextAllocSeq ==
  \/ \E u \in AllocUsers : Quiescent /\ StartEnsure(1, u)
  \/ \E i \in Procs : EnsureStep(i)

SpecAllocSeq == InitAlloc /\ [][NextAllocSeq]_vars

\* no call for user u is in flight
NotInFlight(u) == \A j \in Procs : Free(j) \/ proc[j].user # u

\* calls for different users, interleaved at their queries
NextAllocConc ==
  \/ \E i \in Procs, u \in AllocUsers : Slot(i) /\ NotInFlight(u) /\ StartEnsure(i, u)
  \/ \E i \in Procs : EnsureStep(i)

SpecAllocConc == InitAlloc /\ [][NextAllocConc]_vars

ActiveServers == {k \in DOMAIN servers : servers[k].active}

Full(k) == servers[k].slot_limit # 0 /\
           Occupancy(server_allocations, k) >= servers[k].slot_limit

\* the pool is two active servers of slot_limit 2 each
TwoByTwo == Cardinality(ActiveServers) = 2 /\ \A k \in ActiveServers : servers[k].slot_limit = 2

\* C7: with calls made one at a time, no active server with a finite
\* slot_limit holds more allocations than it; a call returns the server it
\* left the user on, and returns null only when every active server is full,
\* leaving the user without allocation.  With two servers of capacity 2 the
\* first four users are assigned and the fifth gets null.
C7_CapacityRespectedSequentially ==
  /\ \A k \in ActiveServers :
       servers[k].slot_limit # 0 =>
         Occupancy(server_allocations, k) <= servers[k].slot_limit
  /\ \A i \in Procs :
       (proc[i].pc = "done" /\ proc[i].op = "ensure") =>
         /\ proc[i].note = "assigned" =>
              /\ proc[i].user \in DOMAIN server_allocations
              /\ server_allocations[proc[i].user] = proc[i].next
              /\ proc[i].next \in ActiveServers
         /\ proc[i].note = "null" =>
              /\ proc[i].user \notin DOMAIN server_allocations
              /\ \A k \in ActiveServers : Full(k)
              /\ TwoByTwo => Cardinality(DOMAIN server_allocations) = 4
         /\ (TwoByTwo /\ Cardinality(DOMAIN server_allocations) < 4) =>
              proc[i].note = "assigned"

\* C7 witness: two servers of capacity 2, four users assigned, and the call
\* for a fifth user has returned null and written no allocation
C7_Witness ==
  /\ TwoByTwo
  /\ Cardinality(DOMAIN server_allocations) = 4
  /\ \E i \in Procs :
       /\ proc[i].pc = "done" /\ proc[i].op = "ensure" /\ proc[i].note = "null"
       /\ proc[i].user \notin DOMAIN server_allocations

\* C8: with calls for different users interleaved, no server holds more
\* allocations than its finite slot_limit.
C8_CapacityRespectedConcurrently ==
  \A k \in DOMAIN servers :
    servers[k].slot_limit = 0 \/
    Occupancy(server_allocations, k) <= servers[k].slot_limit

-----------------------------------------------------------------------------
(* runExpiryNotifierOnce                                                   *)

NotifyUsers == 1..NumNotifyUsers

\* the anti-join `left join sub_notifications n ... where n.user_id is null`
NotYetNotifiedAlways(notes, u, kind, d) == TRUE
NotYetNotified(notes, u, kind, d) == <<u, kind, d>> \notin notes

SelectedWithinDays(kind, until, clock) ==
  CASE kind = "3d" -> until > clock /\ DateOf(until) <= DateOf(clock + 3 * DaySec)
    [] kind = "1d" -> until > clock /\ DateOf(until) <= DateOf(clock + DaySec)
    [] OTHER -> until <= clock

\* the where clause of q3 / q1 (days ahead) and of q0 (expired)
Selected(kind, until, clock) ==
  CASE kind = "3d" -> until > clock /\ DateOf(until) = DateOf(clock + 3 * DaySec)
    [] kind = "1d" -> until > clock /\ DateOf(until) = DateOf(clock + DaySec)
    [] OTHER -> until <= clock

\* the users a query returns
Candidates(kind, subs, notes, clock) ==
  {u \in DOMAIN subs :
     /\ Selected(kind, subs[u].until, clock)
     /\ NotYetNotified(notes, u, kind, DateOf(subs[u].until))}

\* the rows <<user_id, d>> of a query, by user id
RECURSIVE RowsOf(_, _)
RowsOf(S, subs) ==
  IF S = {} THEN <<>>
  ELSE LET u == CHOOSE x \in S : \A y \in S : x <= y
       IN  <<<<u, DateOf(subs[u].until)>>>> \o RowsOf(S \ {u}, subs)

\* a scan begins (at start-up, or on the hourly timer): q3 comes first
StartScan(i) ==
  /\ Free(i)
  /\ nreq < MaxScans
  /\ proc' = [proc EXCEPT ![i] = [Idle EXCEPT !.op = "scan", !.pc = "n_query", !.kind = "3d"]]
  /\ nreq' = nreq + 1
  /\ UNCHANGED <<now, tables, ticks, grantLog, sentLog>>

\* the loop of one kind is over: the next query, or the end of the scan
NextKind(r) ==
  CASE r.kind = "3d" -> [r EXCEPT !.pc = "n_query", !.kind = "1d", !.cands = <<>>]
    [] r.kind = "1d" -> [r EXCEPT !.pc = "n_query", !.kind = "expired", !.cands = <<>>]
    [] OTHER -> Done(r, 0, "scanned")

\* the row at hand is finished: the next row, or the next query
AfterRow(r) ==
  IF Len(r.cands) <= 1 THEN NextKind(r)
  ELSE [r EXCEPT !.pc = "n_send", !.cands = Tail(r.cands)]

\* q3, q1 or q0
ScanQuery(i) ==
  /\ proc[i].pc = "n_query"
  /\ LET r == proc[i]
         rows == RowsOf(Candidates(r.kind, subscriptions, sub_notifications, now),
                        subscriptions)
     IN  proc' = [proc EXCEPT ![i] =
           IF rows = <<>> THEN NextKind(r)
           ELSE [r EXCEPT !.pc = "n_send", !.cands = rows]]
  /\ UNCHANGED <<now, tables, nreq, ticks, grantLog, sentLog>>

AfterSendAlwaysRecords(r, ok) == [r EXCEPT !.pc = "n_ins"]

AfterSendNeverRecords(r, ok) == AfterRow(r)

\* the send and the insert share one try block: the insert follows a send
\* that returned, a send that threw ends the row at hand
AfterSend(r, ok) == IF ok THEN [r EXCEPT !.pc = "n_ins"] ELSE AfterRow(r)

\* notifySubExpiring / notifySubExpired for the row at hand: delivered (ok), or
\* it throws, which skips the insert
ScanSend(i, ok) ==
  /\ proc[i].pc = "n_send"
  /\ LET r == proc[i]
         row == Head(r.cands)
     IN  /\ sentLog' = Append(sentLog, [user |-> row[1], kind |-> r.kind,
                                         d |-> row[2], ok |-> ok])
         /\ proc' = [proc EXCEPT ![i] = AfterSend(r, ok)]
  /\ UNCHANGED <<now, tables, nreq, ticks, grantLog>>

\* insert into sub_notifications ... on conflict do nothing
ScanInsert(i) ==
  /\ proc[i].pc = "n_ins"
  /\ LET r == proc[i]
         row == Head(r.cands)
     IN  /\ sub_notifications' = sub_notifications \cup {<<row[1], r.kind, row[2]>>}
         /\ proc' = [proc EXCEPT ![i] = AfterRow(r)]
  /\ UNCHANGED <<now, subscriptions, vless_clients, servers, server_allocations,
                 apays_orders, payments, purchases, env, free_trials, blocks, nreq, ticks, grantLog,
                 sentLog>>

ScanStep(i) ==
  \/ ScanQuery(i)
  \/ \E ok \in BOOLEAN : ScanSend(i, ok)
  \/ ScanInsert(i)

\* a scan at noon, and one half an hour before midnight
NotifyStartTimes == {At(2025, 0, 31, 12 * HourSec), At(2025, 0, 31, 23 * HourSec + 1800)}

\* the expiries the notifier meets: three days ahead, the day before that,
\* tomorrow, and an hour ago
NotifyUntils(clock) ==
  {clock + 3 * DaySec, clock + 2 * DaySec, clock + DaySec, clock - HourSec}

InitNotify ==
  /\ InitQuiet
  /\ now \in NotifyStartTimes
  /\ subscriptions \in [NotifyUsers -> [plan : {"1m"}, until : NotifyUntils(now)]]
  /\ vless_clients = [u \in DOMAIN subscriptions |-> subscriptions[u].until]
  /\ servers = PayServers
  /\ server_allocations = NoRows
  /\ purchases = NoRows
  /\ env = [webhookSecret |-> FALSE]

\* scans that overlap (two instances, or a scan that outlasts the hour)
NextNotifyConc ==
  \/ \E i \in Procs : Slot(i) /\ StartScan(i)
  \/ \E i \in Procs : ScanStep(i)

SpecNotifyConc == InitNotify /\ [][NextNotifyConc]_vars

\* scans that run one after the other, the clock advancing between steps
NextNotifySeq ==
  \/ Quiescent /\ StartScan(1)
  \/ \E i \in Procs : ScanStep(i)
  \/ Tick

SpecNotifySeq == InitNotify /\ [][NextNotifySeq]_vars

\* the delivered (or failed) messages of kind for user u and expiry date d
Sends(u, kind, d, ok) ==
  Cardinality({n \in 1..Len(sentLog) :
                 sentLog[n] = [user |-> u, kind |-> kind, d |-> d, ok |-> ok]})

\* C9: overlapping scans deliver at most one message per (user, kind, date).
C9_OverlappingScansSendOnce ==
  \A n \in 1..Len(sentLog) :
    Sends(sentLog[n].user, sentLog[n].kind, sentLog[n].d, TRUE) <= 1

\* every scan so far ran on the day that it is now
SameDay == DateOf(now) = DateOf(now - ticks * HourSec)

\* C10: scans that do not overlap deliver at most one '3d' reminder per user
\* and expiry date; once a scan has completed on the day a user's expiry is
\* three days ahead, and no send to that user failed, exactly one was
\* delivered and its row is stored, however many scans ran that day.
C10_SequentialScansSendOne3d ==
  \A u \in DOMAIN subscriptions :
    LET d == DateOf(subscriptions[u].until) IN
      /\ Sends(u, "3d", d, TRUE) <= 1
      /\ (/\ Quiescent
          /\ nreq >= 1
          /\ SameDay
          /\ Selected("3d", subscriptions[u].until, now)
          /\ Sends(u, "3d", d, FALSE) = 0)
         => (Sends(u, "3d", d, TRUE) = 1 /\ <<u, "3d", d>> \in sub_notifications)

\* C10 witness: two scans have completed on the same day for a user expiring
\* three days ahead; one '3d' reminder was delivered and none failed
C10_Witness ==
  \E u \in DOMAIN subscriptions :
    LET d == DateOf(subscriptions[u].until) IN
      /\ Quiescent /\ nreq = 2 /\ SameDay
      /\ Selected("3d", subscriptions[u].until, now)
      /\ Sends(u, "3d", d, FALSE) = 0
      /\ Sends(u, "3d", d, TRUE) = 1

-----------------------------------------------------------------------------
(* SpecExtendSeq: grantSubscription called one call at a time              *)

\* duration_days of CONFIG_TARIFFS, by plan code ('w' and '1y' are the
\* normalised '7d' and '12m')
DurationDays(p) ==
  CASE p \in {"7d", "w"} -> 7
    [] p = "1m" -> 30
    [] p = "3m" -> 90
    [] p = "6m" -> 180
    [] p \in {"12m", "1y"} -> 365
    [] OTHER -> 0

\* the day is the last of a long month, or an ordinary day of a short one
ExtendStartTimes == {At(2025, 0, 31, 12 * HourSec), At(2025, 1, 10, 12 * HourSec)}

InitExtend ==
  /\ InitQuiet
  /\ now \in ExtendStartTimes
  /\ \E h \in InitHolding(now, {1}) :
       /\ subscriptions = h.subs
       /\ server_allocations = h.alloc
  /\ vless_clients = [u \in DOMAIN subscriptions |-> subscriptions[u].until]
  /\ servers = PayServers
  /\ purchases = NoRows
  /\ env = [webhookSecret |-> FALSE]

\* a call begins only when the one before it has returned
NextExtendSeq ==
  \/ \E u \in PayUsers, plan \in AdminPlans :
       (\A j \in Procs : Free(j)) /\ StartAdminGrant(1, u, plan)
  \/ \E i \in Procs : GrantStep(i)
  \/ Tick

SpecExtendSeq == InitExtend /\ [][NextExtendSeq]_vars

\* the extensions written so far for the user of the n-th, the n-th included
UpTo(n) == {m \in 1..n : grantLog[m].user = grantLog[n].user}

RECURSIVE SumDays(_)
SumDays(S) ==
  IF S = {} THEN 0
  ELSE LET m == CHOOSE x \in S : TRUE
       IN  DurationDays(grantLog[m].plan) + SumDays(S \ {m})

First(S) == CHOOSE m \in S : \A k \in S : m <= k

\* C11: after n extensions of one user made one after the other, each before
\* the previous expiry, until is the base of the first plus the durations of
\* all n plans (1m then 1m from no entitlement: now + 60 days).
C11_SequentialExtensionsAddUp ==
  \A n \in 1..Len(grantLog) :
    grantLog[n].until =
      grantLog[First(UpTo(n))].base + SumDays(UpTo(n)) * DaySec

-----------------------------------------------------------------------------
(* SpecLedger: extensions and cancellations of a user, one call at a time  *)

CancelRowDeletes(subs, u, clock) == [x \in DOMAIN subs \ {u} |-> subs[x]]

\* update subscriptions set until = now() - interval '1 second' where user_id = u
CancelRow(subs, u, clock) ==
  [x \in DOMAIN subs |-> IF x = u THEN [subs[x] EXCEPT !.until = clock - 1]
                         ELSE subs[x]]

\* GET /api/sub/cancelMe for the verified user u: one statement
CancelMe(u) ==
  /\ ~Blocked(blocks, u, now)
  /\ \A j \in Procs : Free(j)
  /\ subscriptions' = CancelRow(subscriptions, u, now)
  /\ UNCHANGED <<now, vless_clients, servers, server_allocations, apays_orders,
                 payments, sub_notifications, purchases, env, free_trials, blocks, proc, nreq, ticks,
                 grantLog, sentLog>>

NextLedger ==
  \/ \E u \in PayUsers, plan \in AdminPlans :
       (\A j \in Procs : Free(j)) /\ StartAdminGrant(1, u, plan)
  \/ \E i \in Procs : GrantStep(i)
  \/ \E u \in PayUsers : CancelMe(u)
  \/ Tick

SpecLedger == InitExtend /\ [][NextLedger]_vars

\* the user has a row whose until is strictly in the future
RunsAt(subs, u, clock) == u \in DOMAIN subs /\ subs[u].until > clock

\* C12: an extension takes as its base the stored until when that is strictly
\* in the future and now otherwise (no row, expired, cancelled), and writes
\* base + duration: an expired entitlement is extended to now + duration,
\* never to its stale expiry + duration.
C12_BaseIsFutureUntilOrNow ==
  [][\A i \in Procs :
       /\ (proc[i].pc = "g_read" /\ proc'[i] # proc[i]) =>
            LET u == proc[i].user IN
              /\ RunsAt(subscriptions, u, now) =>
                   /\ proc'[i].base = subscriptions[u].until
                   /\ proc'[i].until =
                        addPlanToDate(proc[i].p, subscriptions[u].until, now)
              /\ ~RunsAt(subscriptions, u, now) =>
                   /\ proc'[i].base = now
                   /\ proc'[i].until = addPlanToDate(proc[i].p, now, now)
       /\ (proc[i].pc = "g_upsert" /\ proc'[i] # proc[i]) =>
            /\ subscriptions'[proc[i].user].until = proc[i].until
            /\ proc[i].until > proc[i].base]_vars

\* C12 witness: a user whose entitlement had expired (the client row still
\* shows the old expiry) has been extended from the time of the call
C12_Witness ==
  \E i \in Procs :
    LET u == proc[i].user IN
      /\ proc[i].pc = "g_vread"
      /\ u \in DOMAIN vless_clients
      /\ Len(grantLog) >= 1
      /\ grantLog[Len(grantLog)].user = u
      /\ vless_clients[u] < grantLog[Len(grantLog)].base
      /\ grantLog[Len(grantLog)].base \in {now, now - HourSec}
      /\ subscriptions[u].until =
           addPlanToDate(grantLog[Len(grantLog)].plan, grantLog[Len(grantLog)].base,
                         grantLog[Len(grantLog)].base)

-----------------------------------------------------------------------------
(* Extensions under interleaving (SpecGrant) and order status (SpecApays)  *)

\* C13: no step of an extension, however the calls interleave, lowers a
\* user's until (SpecGrant has no cancellation).
C13_UntilNeverDecreases ==
  [][\A u \in DOMAIN subscriptions :
       /\ u \in DOMAIN subscriptions'
       /\ subscriptions'[u].until >= subscriptions[u].until]_vars

\* C14: an order that is paid stays paid and an order that is failed stays
\* failed, whatever callbacks follow for its order_id.
C14_OrderStatusIsTerminal ==
  [][\A o \in DOMAIN apays_orders :
       apays_orders[o].status \in {"paid", "failed"} =>
         apays_orders'[o].status = apays_orders[o].status]_vars

-----------------------------------------------------------------------------
(* SpecApaysFail: callbacks handled one at a time, any query may fail      *)

\* a query of the callback handler, or of the grantSubscription it calls,
\* rejects: the statement writes nothing and the catch answers 500.  (The
\* field and signature checks come before the first query.)
ApaysThrow(i) ==
  /\ proc[i].op = "apays"
  /\ proc[i].pc \in {"a_read", "a_mark", "a_pay", "a_fail", "g_read", "g_upsert",
                     "g_vread", "g_vupsert", "e_cur", "e_srv", "e_cnt", "p_srv",
                     "p_fill", "e_upsert"}
  /\ proc[i].pc = "a_read" => (proc[i].status # "" /\ proc[i].verified)
  /\ proc' = [proc EXCEPT ![i] = Done(proc[i], 500, "server error")]
  /\ UNCHANGED <<now, tables, nreq, ticks, grantLog, sentLog>>

NextApaysFail ==
  \/ \E u \in PayUsers, plan \in PayPlans : PayCard(u, plan)
  \/ \E o \in OrderIds, status \in {"approved", "declined"}, signOk \in BOOLEAN :
       (\A j \in Procs : Free(j)) /\ StartApays(1, o, status, signOk)
  \/ \E i \in Procs : ApaysRead(i)
  \/ \E i \in Procs : ApaysMark(i)
  \/ \E i \in Procs : ApaysPay(i)
  \/ \E i \in Procs : ApaysFail(i)
  \/ \E i \in Procs : GrantStep(i)
  \/ \E i \in Procs : ApaysThrow(i)

SpecApaysFail == InitPay /\ [][NextApaysFail]_vars

\* order o is paid, no credit was applied for it, and no handler is at work on it
Gap(o) ==
  /\ apays_orders[o].status = "paid"
  /\ Credits("apays", o) = 0
  /\ \A i \in Procs :
       (proc[i].op = "apays" /\ proc[i].ref = o) => proc[i].pc \in {"a_read", "done"}

\* C15: whatever query fails, an order is credited at most once; an order left
\* paid without its credit stays so, a later delivery of its confirmation
\* applying nothing.
C15_NoCreditAfterPartialFailure ==
  [][\A o \in DOMAIN apays_orders :
       /\ o \in DOMAIN apays_orders'
       /\ Cardinality({n \in 1..Len(grantLog') :
                         grantLog'[n].op = "apays" /\ grantLog'[n].ref = o}) <= 1
       /\ Gap(o) => Gap(o)']_vars

\* C15 witness: the grant failed after the order was marked paid, and the
\* confirmation delivered again was answered as already processed
C15_Witness ==
  \E o \in DOMAIN apays_orders :
    /\ Gap(o)
    /\ nreq = 2
    /\ proc[1].pc = "done" /\ proc[1].ref = o
    /\ proc[1].note = "already" /\ proc[1].resp = 200
    /\ payments = <<>>

-----------------------------------------------------------------------------
(* SpecAllocTwice: ensureUserServer called one call at a time, on a pool   *)
(* whose allocations may be stale                                          *)

NumHealUsers == 2      \* users of the stale-allocation specifications

HealUsers == 1..NumHealUsers

\* the allocations of some of the users, on any servers
StaleAllocations ==
  UNION {[D -> 1..NumServers] : D \in SUBSET HealUsers}

\* any pool, and allocations made before the pool took its present shape
\* (servers retired or their slot_limit lowered by the administrator since)
InitHeal ==
  /\ InitQuiet
  /\ now \in PayStartTimes
  /\ subscriptions = NoRows
  /\ vless_clients = NoRows
  /\ servers \in [1..NumServers -> [active : BOOLEAN, slot_limit : 0..MaxSlotLimit]]
  /\ server_allocations \in StaleAllocations
  /\ purchases = NoRows
  /\ env = [webhookSecret |-> FALSE]

\* a caller calls ensureUserServer(u) once the call before has returned, and
\* keeps what that call returned (slot 2 holds it; it never runs)
CallEnsure(u) ==
  /\ \A j \in Procs : Free(j)
  /\ proc' = [proc EXCEPT
       ![1] = [Idle EXCEPT !.op = "ensure", !.pc = "e_cur", !.user = u],
       ![2] = IF proc[1].pc = "done" THEN proc[1] ELSE Idle]
  /\ UNCHANGED <<now, tables, nreq, ticks, grantLog, sentLog>>

NextAllocTwice ==
  \/ \E u \in HealUsers : CallEnsure(u)
  \/ \E i \in Procs : EnsureStep(i)

SpecAllocTwice == InitHeal /\ [][NextAllocTwice]_vars

\* the call in progress is for the user of the call just before it
SecondInARow ==
  /\ proc[1].op = "ensure" /\ proc[1].pc # "done"
  /\ proc[2].pc = "done" /\ proc[2].user = proc[1].user

\* C16: a call for the user of the call just before it, nothing having changed
\* in between, writes no allocation and returns what that call returned.
C16_SecondCallIsStable ==
  [][SecondInARow =>
       /\ server_allocations' = server_allocations
       /\ proc'[1].pc = "done" => proc'[1].next = proc[2].next]_vars

\* C16 witness: the first call moved the user to a server, the second found
\* the user there and returned it
C16_Witness ==
  /\ proc[1].pc = "done" /\ proc[2].pc = "done"
  /\ proc[1].op = "ensure" /\ proc[2].op = "ensure"
  /\ proc[1].user = proc[2].user
  /\ proc[2].next # 0 /\ proc[2].sid # proc[2].next
  /\ proc[1].sid = proc[2].next /\ proc[1].next = proc[2].next
  /\ server_allocations[proc[1].user] = proc[1].next

-----------------------------------------------------------------------------
(* pickServerForUser (SpecAllocSeq)                                        *)

\* the active servers with room: no slot_limit, or fewer allocations than it
WithRoom ==
  {k \in DOMAIN servers :
     /\ servers[k].active
     /\ servers[k].slot_limit = 0 \/
        Occupancy(server_allocations, k) < servers[k].slot_limit}

\* the least occupied of them, the earliest created on ties; 0 when there is none
LeastOccupied ==
  IF WithRoom = {} THEN 0
  ELSE CHOOSE k \in WithRoom :
         \A j \in WithRoom :
           \/ Occupancy(server_allocations, k) < Occupancy(server_allocations, j)
           \/ /\ Occupancy(server_allocations, k) = Occupancy(server_allocations, j)
              /\ k <= j

\* the pool is server 1 with one slot and server 2 without a slot_limit
OneAndUnlimited ==
  servers = <<[active |-> TRUE, slot_limit |-> 1], [active |-> TRUE, slot_limit |-> 0]>>

\* what the step that ends pickServerForUser hands to ensureUserServer
Picked(r) == IF r.pc = "e_upsert" THEN r.next ELSE 0

\* C17: pickServerForUser returns the least occupied active server that has
\* room (a missing or zero slot_limit never excludes), the earliest created on
\* ties, and null when there is none; with servers of capacity 1 and
\* unlimited, the first user is given server 1 and the second server 2.
C17_PicksLeastOccupiedWithRoom ==
  [][\A i \in Procs :
       (proc[i].pc \in {"p_srv", "p_fill"} /\ proc'[i].pc \in {"e_upsert", "done"}) =>
         /\ Picked(proc'[i]) = LeastOccupied
         /\ (OneAndUnlimited /\ server_allocations = NoRows) => Picked(proc'[i]) = 1
         /\ (OneAndUnlimited /\ Cardinality(DOMAIN server_allocations) = 1
               /\ Occupancy(server_allocations, 1) = 1) => Picked(proc'[i]) = 2]_vars

\* C17 witness: capacity 1 and unlimited; the first user was given server 1
\* and the call for the second has just picked server 2
C17_Witness ==
  /\ OneAndUnlimited
  /\ Cardinality(DOMAIN server_allocations) = 1
  /\ Occupancy(server_allocations, 1) = 1
  /\ \E i \in Procs :
       /\ proc[i].pc = "e_upsert" /\ proc[i].next = 2
       /\ proc[i].user \notin DOMAIN server_allocations

-----------------------------------------------------------------------------
(* SpecGrantFull: grantSubscription on a pool that may have no free slot   *)

SubMeActiveNotBefore(subs, u, clock) == u \in DOMAIN subs /\ subs[u].until >= clock

\* GET /api/sub/me: `row?.until ? new Date(row.until) > new Date() : false`
SubMeActive(subs, u, clock) == u \in DOMAIN subs /\ subs[u].until > clock

InitGrantFull ==
  /\ InitQuiet
  /\ now \in PayStartTimes
  /\ subscriptions = NoRows
  /\ vless_clients = NoRows
  /\ servers \in [1..NumServers -> [active : BOOLEAN, slot_limit : 0..MaxSlotLimit]]
  /\ server_allocations \in StaleAllocations
  /\ purchases = NoRows
  /\ env = [webhookSecret |-> FALSE]

NextGrantFull ==
  \/ \E u \in PayUsers, plan \in AdminPlans :
       (\A j \in Procs : Free(j)) /\ StartAdminGrant(1, u, plan)
  \/ \E i \in Procs : GrantStep(i)
  \/ Tick

SpecGrantFull == InitGrantFull /\ [][NextGrantFull]_vars

\* C18: a grant succeeds whether or not the user can be given a server: it
\* answers 200, the until it wrote is kept and the user is reported active;
\* it ends without a server (ensureUserServer returned null) exactly when the
\* user could not keep the current server and no active server has a free slot.
C18_GrantSucceedsWithoutCapacity ==
  \A i \in Procs :
    (proc[i].pc = "done" /\ proc[i].op = "admin_grant") =>
      LET u == proc[i].user IN
        /\ proc[i].resp = 200
        /\ grantLog # <<>>
        /\ grantLog[Len(grantLog)].user = u
        /\ subscriptions[u].until = grantLog[Len(grantLog)].until
        /\ SubMeActive(subscriptions, u, now)
        /\ proc[i].next = 0 => WithRoom = {}
        /\ proc[i].next # 0 =>
             (u \in DOMAIN server_allocations /\ server_allocations[u] = proc[i].next)

\* C18 witness: a grant has ended with no active server having a free slot:
\* the user has no server, and is active until the date the grant wrote
C18_Witness ==
  \E i \in Procs :
    /\ proc[i].pc = "done" /\ proc[i].op = "admin_grant"
    /\ proc[i].next = 0 /\ proc[i].resp = 200
    /\ WithRoom = {}
    /\ \E k \in DOMAIN servers : servers[k].active
    /\ proc[i].user \notin DOMAIN server_allocations
    /\ SubMeActive(subscriptions, proc[i].user, now)
    /\ subscriptions[proc[i].user].until = grantLog[Len(grantLog)].until

-----------------------------------------------------------------------------
(* Stale allocations (SpecAllocTwice, SpecAllocSame)                       *)

\* the call found the user on a server that is no longer active
FoundOnInactive(r) ==
  /\ r.op = "ensure" /\ r.pc # "done"
  /\ r.sid # 0 /\ ~servers[r.sid].active

\* C19: a call that finds the user on an inactive server never returns that
\* server: when an active server has a free slot it moves the user to one,
\* and otherwise it returns null and leaves the row as it is.
C19_InactiveServerIsReplaced ==
  [][\A i \in Procs :
       (FoundOnInactive(proc[i]) /\ proc'[i] # proc[i]) =>
         /\ proc'[i].pc # "e_cnt"
         /\ proc'[i].pc = "done" =>
              /\ proc'[i].next # proc[i].sid
              /\ WithRoom # {} =>
                   /\ proc'[i].next \in WithRoom
                   /\ server_allocations' =
                        [server_allocations EXCEPT ![proc[i].user] = proc'[i].next]
              /\ WithRoom = {} =>
                   /\ proc'[i].next = 0
                   /\ server_allocations' = server_allocations]_vars

\* C19 witness: the user was found on an inactive server and now has a row
\* on an active one, which the call returned
C19_Witness ==
  \E i \in Procs :
    /\ proc[i].pc = "done" /\ proc[i].op = "ensure"
    /\ proc[i].sid # 0 /\ ~servers[proc[i].sid].active
    /\ proc[i].next # 0 /\ servers[proc[i].next].active
    /\ server_allocations[proc[i].user] = proc[i].next

\* calls for any users, the same user included, interleaved at their queries
NextAllocSame ==
  \/ \E i \in Procs, u \in HealUsers : Slot(i) /\ StartEnsure(i, u)
  \/ \E i \in Procs : EnsureStep(i)

SpecAllocSame == InitHeal /\ [][NextAllocSame]_vars

\* the rows of server_allocations, as <<user_id, server_id>>
AllocationRows(alloc) == {<<u, alloc[u]>> : u \in DOMAIN alloc}

\* C20: a user never has two allocation rows (user_id is the primary key);
\* the write of a call for a user puts that user on the server picked,
\* replacing the row the user had, and touches no other user's row, also
\* when two calls for the same user interleave.
C20_OneAllocationPerUser ==
  [][/\ \A a, b \in AllocationRows(server_allocations') : a[1] = b[1] => a = b
     /\ \A i \in Procs :
          (proc[i].pc = "e_upsert" /\ proc'[i] # proc[i]) =>
            LET u == proc[i].user IN
              /\ AllocationRows(server_allocations') =
                   {a \in AllocationRows(server_allocations) : a[1] # u}
                     \cup {<<u, proc[i].next>>}
              /\ Occupancy(server_allocations', proc[i].next) >= 1]_vars

\* C20 witness: two calls for one user ran interleaved (both found the user on
\* the old server, both wrote), and only the row on the new server is left
C20_Witness ==
  /\ proc[1].pc = "done" /\ proc[2].pc = "done"
  /\ proc[1].op = "ensure" /\ proc[2].op = "ensure"
  /\ proc[1].user = proc[2].user
  /\ proc[1].sid # 0 /\ proc[1].sid = proc[2].sid
  /\ proc[1].next # 0 /\ proc[1].next # proc[1].sid
  /\ proc[2].next # 0 /\ proc[2].next # proc[2].sid
  /\ {a \in AllocationRows(server_allocations) : a[1] = proc[1].user}
       = {<<proc[1].user, proc[1].next>>}

-----------------------------------------------------------------------------
(* grantSubscription ends with ensureUserServer (SpecGrantFull)            *)

\* what ensureUserServer leaves when it returns `result` for user u: an
\* allocation to an active server holding no more than its slot_limit, or
\* null with no active server having room
Placed(u, result) ==
  IF result = 0 THEN WithRoom = {}
  ELSE /\ u \in DOMAIN server_allocations
       /\ server_allocations[u] = result
       /\ servers[result].active
       /\ servers[result].slot_limit = 0 \/
          Occupancy(server_allocations, result) <= servers[result].slot_limit

\* the same of the result a call holds
PlacedNext(i) == Placed(proc[i].user, proc[i].next)

\* C21: a grantSubscription call enters ensureUserServer only once its until
\* is in subscriptions, returns only through ensureUserServer, and on return
\* (and when the handler answers) the user holds an allocation to an active
\* server within its capacity, or no server qualified.
C21_GrantEndsWithEnsure ==
  [][\A i \in Procs :
       LET r == proc[i]
           q == proc'[i]
       IN  /\ (q.pc = "e_cur" /\ r.pc # "e_cur") =>
                /\ r.pc = "g_vupsert"
                /\ grantLog # <<>>
                /\ grantLog[Len(grantLog)].user = r.user
                /\ subscriptions[r.user].until = r.until
           /\ (q.pc = "g_notify" /\ r.pc # "g_notify") =>
                /\ r.pc \in {"e_cnt", "p_srv", "p_fill", "e_upsert"}
                /\ PlacedNext(i)'
           /\ (q.pc = "done" /\ r.pc # "done") =>
                /\ r.pc = "g_notify"
                /\ q.resp = 200
                /\ PlacedNext(i)']_vars

\* C21 witness: a grant has answered for a user whom ensureUserServer gave
\* the last slot of an active server, the other server being inactive
C21_Witness ==
  \E i \in Procs :
    LET u == proc[i].user IN
      /\ proc[i].pc = "done" /\ proc[i].op = "admin_grant"
      /\ proc[i].next # 0
      /\ server_allocations[u] = proc[i].next
      /\ servers[proc[i].next].slot_limit # 0
      /\ Occupancy(server_allocations, proc[i].next) = servers[proc[i].next].slot_limit
      /\ \E k \in DOMAIN servers : ~servers[k].active
      /\ subscriptions[u].until = grantLog[Len(grantLog)].until

-----------------------------------------------------------------------------
(* POST /admin/sub/cancel, and cancellations in the ledger (SpecCancel)    *)

\* an admin (requireAdmin passed) cancels the subscription of userId
StartAdminCancel(i, u) ==
  /\ Free(i)
  /\ nreq < MaxRequests
  /\ proc' = [proc EXCEPT ![i] = [Idle EXCEPT !.op = "admin_cancel", !.pc = "x_sub",
                                              !.user = u]]
  /\ nreq' = nreq + 1
  /\ UNCHANGED <<now, tables, ticks, grantLog, sentLog>>

\* update subscriptions set until = now() - interval '1 second'; the until
\* written is kept for the history only (0 when the user has no row)
AdminCancelSub(i) ==
  /\ proc[i].pc = "x_sub"
  /\ LET r == proc[i] IN
       /\ subscriptions' = CancelRow(subscriptions, r.user, now)
       /\ proc' = [proc EXCEPT ![i] =
            [r EXCEPT !.pc = "x_vless",
                      !.until = IF r.user \in DOMAIN subscriptions THEN now - 1 ELSE 0]]
  /\ UNCHANGED <<now, vless_clients, servers, server_allocations, apays_orders,
                 payments, sub_notifications, purchases, env, free_trials, blocks, nreq,
                 ticks, grantLog, sentLog>>

AdminCancelVlessFreesSlot(i) ==
  /\ proc[i].pc = "x_vless"
  /\ vless_clients' = [x \in DOMAIN vless_clients |->
                         IF x = proc[i].user THEN now - 1 ELSE vless_clients[x]]
  /\ server_allocations' = [x \in DOMAIN server_allocations \ {proc[i].user} |->
                              server_allocations[x]]
  /\ proc' = [proc EXCEPT ![i] = [proc[i] EXCEPT !.pc = "x_send"]]
  /\ UNCHANGED <<now, subscriptions, servers, apays_orders, payments,
                 sub_notifications, purchases, env, free_trials, blocks, nreq, ticks,
                 grantLog, sentLog>>

\* update vless_clients set expires_at = now() - interval '1 second'
AdminCancelVless(i) ==
  /\ proc[i].pc = "x_vless"
  /\ vless_clients' = [x \in DOMAIN vless_clients |->
                         IF x = proc[i].user THEN now - 1 ELSE vless_clients[x]]
  /\ proc' = [proc EXCEPT ![i] = [proc[i] EXCEPT !.pc = "x_send"]]
  /\ UNCHANGED <<now, subscriptions, servers, server_allocations, apays_orders,
                 payments, sub_notifications, purchases, env, free_trials, blocks, nreq,
                 ticks, grantLog, sentLog>>

\* notifySubExpired(userId), a failure caught and logged; nothing is written
\* to sub_notifications; then res.json({ ok: true })
AdminCancelSend(i, ok) ==
  /\ proc[i].pc = "x_send"
  /\ LET r == proc[i] IN
       /\ sentLog' = Append(sentLog,
            [user |-> r.user, kind |-> "expired",
             d |-> IF r.until = 0 THEN 0 ELSE DateOf(r.until), ok |-> ok])
       /\ proc' = [proc EXCEPT ![i] = Done(r, 200, "cancelled")]
  /\ UNCHANGED <<now, tables, nreq, ticks, grantLog>>

AdminCancelStep(i) ==
  \/ AdminCancelSub(i)
  \/ AdminCancelVless(i)
  \/ \E ok \in BOOLEAN : AdminCancelSend(i, ok)

\* grants and both cancellations of a user, one call at a time
NextCancel ==
  \/ \E u \in PayUsers, plan \in AdminPlans :
       (\A j \in Procs : Free(j)) /\ StartAdminGrant(1, u, plan)
  \/ \E i \in Procs : GrantStep(i)
  \/ \E u \in PayUsers : CancelMe(u)
  \/ \E u \in PayUsers : (\A j \in Procs : Free(j)) /\ StartAdminCancel(1, u)
  \/ \E i \in Procs : AdminCancelStep(i)
  \/ Tick

SpecCancel == InitExtend /\ [][NextCancel]_vars

\* the row of u was last written by a cancellation: cancellations alone write
\* an until one second before a full hour
Cancelled(subs, u) == u \in DOMAIN subs /\ subs[u].until % HourSec = HourSec - 1

\* C22: a cancellation (by the user or by an admin) keeps every row, sets the
\* user's until to one second before now and leaves the plan: the status
\* query then reports inactive; the next extension of a cancelled row takes
\* now as its base, and writes now + duration.
C22_CancelKeepsRowAndExpiresIt ==
  [][/\ (subscriptions' # subscriptions /\ grantLog' = grantLog) =>
          /\ DOMAIN subscriptions' = DOMAIN subscriptions
          /\ \E u \in DOMAIN subscriptions :
               /\ subscriptions'[u] = [subscriptions[u] EXCEPT !.until = now - 1]
               /\ ~(subscriptions'[u].until > now)
               /\ \A x \in DOMAIN subscriptions \ {u} :
                    subscriptions'[x] = subscriptions[x]
     /\ \A i \in Procs :
          (proc[i].pc = "g_read" /\ proc'[i] # proc[i]
             /\ Cancelled(subscriptions, proc[i].user)) =>
            /\ proc'[i].base = now
            /\ proc'[i].until = addPlanToDate(proc[i].p, now, now)]_vars

\* C22 witness: a user cancelled a subscription that had time left (the
\* client row still shows that expiry) and the extension that followed has
\* been written from the time of the call
C22_Witness ==
  \E i \in Procs :
    LET u == proc[i].user IN
      /\ proc[i].pc = "g_vread"
      /\ u \in DOMAIN vless_clients
      /\ grantLog # <<>>
      /\ grantLog[Len(grantLog)].user = u
      /\ grantLog[Len(grantLog)].base < vless_clients[u]
      /\ grantLog[Len(grantLog)].base \in {now, now - HourSec}
      /\ subscriptions[u].until = grantLog[Len(grantLog)].until

-----------------------------------------------------------------------------
(* The notification record follows the send (SpecNotifySeq)                *)

\* the rows a query returned: <<user_id, date(until)>>
InRows(rows, u, d) == \E m \in 1..Len(rows) : rows[m] = <<u, d>>

\* C23: a sub_notifications row is written only for the triple whose send
\* has just succeeded; a send that fails writes nothing and skips the insert,
\* and a triple with no successful send is returned again by the next query
\* of its kind for as long as the user meets the kind's condition.
C23_RecordOnlyAfterSuccessfulSend ==
  [][/\ sub_notifications' # sub_notifications =>
          /\ sentLog # <<>>
          /\ sentLog[Len(sentLog)].ok
          /\ sub_notifications' = sub_notifications \cup
               {<<sentLog[Len(sentLog)].user, sentLog[Len(sentLog)].kind,
                  sentLog[Len(sentLog)].d>>}
     /\ \A i \in Procs :
          /\ (proc[i].pc = "n_send" /\ sentLog' # sentLog
                /\ ~sentLog'[Len(sentLog')].ok) =>
               /\ sub_notifications' = sub_notifications
               /\ proc'[i].pc # "n_ins"
          /\ (proc[i].pc = "n_query" /\ proc'[i] # proc[i]) =>
               \A u \in DOMAIN subscriptions :
                 LET d == DateOf(subscriptions[u].until) IN
                   (/\ Selected(proc[i].kind, subscriptions[u].until, now)
                    /\ Sends(u, proc[i].kind, d, TRUE) = 0)
                   => InRows(proc'[i].cands, u, d)]_vars

\* C23 witness: a send failed in one scan, left no row, and the same triple
\* was sent and recorded by the scan after it
C23_Witness ==
  \E u \in DOMAIN subscriptions, kind \in {"3d", "1d", "expired"} :
    LET d == DateOf(subscriptions[u].until) IN
      /\ Sends(u, kind, d, FALSE) = 1
      /\ Sends(u, kind, d, TRUE) = 1
      /\ <<u, kind, d>> \in sub_notifications
      /\ sentLog[1] = [user |-> u, kind |-> kind, d |-> d, ok |-> FALSE]

-----------------------------------------------------------------------------
(* SpecNotifyCancel: the scan and the admin cancellation, one at a time    *)

NextNotifyCancel ==
  \/ Quiescent /\ StartScan(1)
  \/ \E i \in Procs : ScanStep(i)
  \/ \E u \in NotifyUsers : Quiescent /\ StartAdminCancel(1, u)
  \/ \E i \in Procs : AdminCancelStep(i)
  \/ Tick

SpecNotifyCancel == InitNotify /\ [][NextNotifyCancel]_vars

\* C24: the scan and the admin cancellation together deliver at most one
\* 'expired' message to a user for one expiry date.
C24_OneExpiredMessagePerExpiry ==
  \A u \in NotifyUsers :
    \A n \in 1..Len(sentLog) :
      (sentLog[n].user = u /\ sentLog[n].kind = "expired" /\ sentLog[n].ok) =>
        Cardinality({m \in 1..Len(sentLog) :
                       /\ sentLog[m].user = u
                       /\ sentLog[m].kind = "expired"
                       /\ sentLog[m].ok
                       /\ sentLog[m].d = sentLog[n].d}) = 1

-----------------------------------------------------------------------------
(* SpecNotifyLife: scans while users cancel and subscribe again            *)

NextNotifyLife ==
  \/ Quiescent /\ StartScan(1)
  \/ \E i \in Procs : ScanStep(i)
  \/ \E u \in NotifyUsers : CancelMe(u)
  \/ \E u \in NotifyUsers, plan \in AdminPlans : Quiescent /\ StartAdminGrant(1, u, plan)
  \/ \E i \in Procs : GrantStep(i)
  \/ Tick

SpecNotifyLife == InitNotify /\ [][NextNotifyLife]_vars

\* C25: no step removes a sub_notifications row; a query returns no triple
\* that has a row, and no message is sent for a triple that has one, whatever
\* cancellations and extensions the user has made in between.
C25_RecordedTripleStaysSent ==
  [][/\ sub_notifications \subseteq sub_notifications'
     /\ \A i \in Procs :
          (proc[i].pc = "n_query" /\ proc'[i] # proc[i]) =>
            \A m \in 1..Len(proc'[i].cands) :
              <<proc'[i].cands[m][1], proc[i].kind, proc'[i].cands[m][2]>>
                \notin sub_notifications
     /\ sentLog' # sentLog =>
          <<sentLog'[Len(sentLog')].user, sentLog'[Len(sentLog')].kind,
            sentLog'[Len(sentLog')].d>> \notin sub_notifications]_vars

\* C25 witness: a user with a recorded 'expired' message for a date has
\* subscribed again and cancelled, so that the expiry falls on that date
\* again; the second scan has completed and the one message is the only one
C25_Witness ==
  \E u \in NotifyUsers :
    LET d == DateOf(subscriptions[u].until) IN
      /\ Quiescent /\ nreq = 3 /\ proc[1].op = "scan"
      /\ Cancelled(subscriptions, u)
      /\ \E n \in 1..Len(grantLog) : grantLog[n].user = u
      /\ <<u, "expired", d>> \in sub_notifications
      /\ Sends(u, "expired", d, TRUE) = 1
      /\ Sends(u, "expired", d, FALSE) = 0

-----------------------------------------------------------------------------
(* Whom a scan selects (SpecNotifySeq)                                     *)

\* the number of calendar days from today to the date of t
DaysAhead(t, clock) == DateOf(t) - DateOf(clock)

\* C26: the rows of q3 are users whose until is in the future and dated three
\* days from today, those of q1 users whose until is in the future and dated
\* tomorrow, those of q0 users whose until is not after now; a user whose
\* until is in the future and dated any other day is in no query's rows.
C26_SelectionByMilestone ==
  [][\A i \in Procs :
       (proc[i].pc = "n_query" /\ proc'[i] # proc[i]) =>
         /\ \A m \in 1..Len(proc'[i].cands) :
              LET u == proc'[i].cands[m][1]
                  t == subscriptions[u].until
              IN  /\ proc'[i].cands[m][2] = DateOf(t)
                  /\ proc[i].kind = "3d" => (t > now /\ DaysAhead(t, now) = 3)
                  /\ proc[i].kind = "1d" => (t > now /\ DaysAhead(t, now) = 1)
                  /\ proc[i].kind = "expired" => t <= now
         /\ \A u \in DOMAIN subscriptions :
              LET t == subscriptions[u].until IN
                (t > now /\ DaysAhead(t, now) \notin {1, 3}) =>
                  ~InRows(proc'[i].cands, u, DateOf(t))]_vars

\* C26 witness: a scan has completed within the day for a user expiring in
\* three days, who was sent the '3d' reminder, and a user expiring in two
\* days, who was sent nothing
C26_Witness ==
  \E u, v \in NotifyUsers :
    /\ Quiescent /\ nreq = 1 /\ SameDay
    /\ DaysAhead(subscriptions[u].until, now) = 3
    /\ DaysAhead(subscriptions[v].until, now) = 2
    /\ \E n \in 1..Len(sentLog) : sentLog[n].user = u /\ sentLog[n].kind = "3d"
    /\ \A n \in 1..Len(sentLog) : sentLog[n].user # v

-----------------------------------------------------------------------------
(* SpecNotifyLive: the hourly scans, with a sender that recovers           *)

\* the sends that have failed so far
SendFailures == Cardinality({n \in 1..Len(sentLog) : ~sentLog[n].ok})

\* a scan is started at start-up and by every firing of the hourly timer,
\* each after the one before has ended; the sender fails at most
\* MaxSendFailures times, fewer than there are scans (MaxScans)
TimerFires == Quiescent /\ StartScan(1)

ScanRuns ==
  \E i \in Procs :
    \/ ScanQuery(i)
    \/ ScanSend(i, TRUE)
    \/ SendFailures < MaxSendFailures /\ ScanSend(i, FALSE)
    \/ ScanInsert(i)

NextNotifyLive ==
  \/ TimerFires
  \/ ScanRuns
  \/ Tick

\* setInterval keeps firing and a scan that has begun runs on
SpecNotifyLive ==
  InitNotify /\ [][NextNotifyLive]_vars /\ WF_vars(TimerFires) /\ WF_vars(ScanRuns)

\* the user's until is not after now
HasExpired(u) == subscriptions[u].until <= now

\* the 'expired' message for the user's expiry date is recorded
ExpiredRecorded(u) ==
  <<u, "expired", DateOf(subscriptions[u].until)>> \in sub_notifications

\* C27: with scans that keep running and a sender that eventually succeeds,
\* every user whose subscription has expired eventually has the 'expired'
\* message for that expiry recorded, sends that failed in earlier scans
\* notwithstanding.
C27_ExpiredEventuallyRecorded ==
  \A u \in NotifyUsers : HasExpired(u) ~> ExpiredRecorded(u)

\* C27 witness: the 'expired' message of a user failed in two scans and is
\* recorded after the third
C27_Witness ==
  \E u \in NotifyUsers :
    /\ HasExpired(u)
    /\ ExpiredRecorded(u)
    /\ Sends(u, "expired", DateOf(subscriptions[u].until), FALSE) = MaxSendFailures
    /\ nreq = MaxSendFailures + 1

-----------------------------------------------------------------------------
(* GET /api/sub/me (SpecStatus)                                            *)

\* the verified user u asks for the status
StartSubMe(i, u) ==
  /\ ~Blocked(blocks, u, now)
  /\ Free(i)
  /\ proc' = [proc EXCEPT ![i] = [Idle EXCEPT !.op = "sub_me", !.pc = "m_sub",
                                              !.user = u]]
  /\ UNCHANGED <<now, tables, nreq, ticks, grantLog, sentLog>>

\* select plan, until from subscriptions; active is computed, and with it the
\* until and plan of the answer (0 and "" stand for null)
SubMeRead(i) ==
  /\ proc[i].pc = "m_sub"
  /\ LET r == proc[i]
         active == SubMeActive(subscriptions, r.user, now)
     IN  proc' = [proc EXCEPT ![i] =
           [r EXCEPT !.pc = "m_trial",
                     !.status = IF active THEN "active" ELSE "inactive",
                     !.until = IF active THEN subscriptions[r.user].until ELSE 0,
                     !.plan = IF r.user \in DOMAIN subscriptions
                              THEN subscriptions[r.user].plan ELSE ""]]
  /\ UNCHANGED <<now, tables, nreq, ticks, grantLog, sentLog>>

\* select 1 from free_trials (trialEligible), then res.json
SubMeAnswer(i) ==
  /\ proc[i].pc = "m_trial"
  /\ proc' = [proc EXCEPT ![i] = Done(proc[i], 200, proc[i].status)]
  /\ UNCHANGED <<now, tables, nreq, ticks, grantLog, sentLog>>

SubMeStep(i) == SubMeRead(i) \/ SubMeAnswer(i)

\* the rows the status query meets: none, expired, expiring at this very
\* instant or within the hour, or running
StatusUntils(clock) == {clock - DaySec, clock, clock + HourSec, clock + 2 * DaySec}

InitStatus ==
  /\ InitQuiet
  /\ now \in PayStartTimes
  /\ \E S \in SUBSET PayUsers :
       subscriptions \in [S -> [plan : {"1m"}, until : StatusUntils(now)]]
  /\ vless_clients = [u \in DOMAIN subscriptions |-> subscriptions[u].until]
  /\ servers = PayServers
  /\ server_allocations = NoRows
  /\ purchases = NoRows
  /\ env = [webhookSecret |-> FALSE]

\* status queries between grants and cancellations, one call at a time
NextStatus ==
  \/ \E u \in PayUsers : Quiescent /\ StartSubMe(1, u)
  \/ \E i \in Procs : SubMeStep(i)
  \/ \E u \in PayUsers, plan \in AdminPlans : Quiescent /\ StartAdminGrant(1, u, plan)
  \/ \E i \in Procs : GrantStep(i)
  \/ \E u \in PayUsers : CancelMe(u)
  \/ Tick

SpecStatus == InitStatus /\ [][NextStatus]_vars

\* C28: the status query reports active exactly when the user has a row whose
\* until is strictly later than now; it reports that until when active and
\* null (0) when inactive, and answers what it computed.
C28_StatusActiveIffUntilAfterNow ==
  [][\A i \in Procs :
       /\ (proc[i].pc = "m_sub" /\ proc'[i] # proc[i]) =>
            LET u == proc[i].user
                running == u \in DOMAIN subscriptions /\ subscriptions[u].until > now
            IN  /\ proc'[i].status = "active" <=> running
                /\ proc'[i].status # "active" => proc'[i].until = 0
                /\ proc'[i].status = "active" =>
                     proc'[i].until = subscriptions[u].until
       /\ (proc[i].pc = "m_trial" /\ proc'[i] # proc[i]) =>
            /\ proc'[i].resp = 200
            /\ proc'[i].note = proc[i].status
            /\ proc[i].status \in {"active", "inactive"}]_vars

\* C28 witness: the status of a user whose until is this very instant has
\* been computed: inactive, with a null until
C28_Witness ==
  \E i \in Procs :
    LET u == proc[i].user IN
      /\ proc[i].pc = "m_trial"
      /\ u \in DOMAIN subscriptions
      /\ subscriptions[u].until = now
      /\ proc[i].status = "inactive"
      /\ proc[i].until = 0

-----------------------------------------------------------------------------
(* The duration credited for a plan (SpecApays)                            *)

\* C29: every extension credits the plan's duration_days: the until written
\* is the base plus that many days (now + 30 days for '1m' bought by a user
\* with no entitlement).
C29_CreditEqualsCatalogDuration ==
  \A n \in 1..Len(grantLog) :
    grantLog[n].until = grantLog[n].base + DurationDays(grantLog[n].plan) * DaySec

-----------------------------------------------------------------------------
(* POST /api/sub/claimTrial (SpecTrial)                                    *)

\* the verified user u claims the free trial
StartClaimTrial(i, u) ==
  /\ ~Blocked(blocks, u, now)
  /\ Free(i)
  /\ nreq < MaxRequests
  /\ proc' = [proc EXCEPT ![i] = [Idle EXCEPT !.op = "trial", !.pc = "t_check",
                                              !.user = u, !.plan = "1m",
                                              !.verified = TRUE]]
  /\ nreq' = nreq + 1
  /\ UNCHANGED <<now, tables, ticks, grantLog, sentLog>>

TrialCheckSkipped(i) ==
  /\ proc[i].pc = "t_check"
  /\ proc' = [proc EXCEPT ![i] = [proc[i] EXCEPT !.pc = "t_sub"]]
  /\ UNCHANGED <<now, tables, nreq, ticks, grantLog, sentLog>>

\* select 1 from free_trials: a row answers 400 already_claimed
TrialCheck(i) ==
  /\ proc[i].pc = "t_check"
  /\ LET r == proc[i] IN
       proc' = [proc EXCEPT ![i] =
         IF r.user \in free_trials THEN Done(r, 400, "already_claimed")
         ELSE [r EXCEPT !.pc = "t_sub"]]
  /\ UNCHANGED <<now, tables, nreq, ticks, grantLog, sentLog>>

\* select until from subscriptions: a running subscription answers 400
\* already_active
TrialSub(i) ==
  /\ proc[i].pc = "t_sub"
  /\ LET r == proc[i] IN
       proc' = [proc EXCEPT ![i] =
         IF r.user \in DOMAIN subscriptions /\ subscriptions[r.user].until > now
         THEN Done(r, 400, "already_active")
         ELSE [r EXCEPT !.pc = "t_ins"]]
  /\ UNCHANGED <<now, tables, nreq, ticks, grantLog, sentLog>>

\* insert into free_trials ... on conflict do nothing (the outcome is not
\* looked at), then grantSubscription(user.id, '1m') is called
TrialInsert(i) ==
  /\ proc[i].pc = "t_ins"
  /\ free_trials' = free_trials \cup {proc[i].user}
  /\ proc' = [proc EXCEPT ![i] = CallGrant(proc[i])]
  /\ UNCHANGED <<now, subscriptions, vless_clients, servers, server_allocations,
                 apays_orders, payments, sub_notifications, purchases, env, blocks,
                 nreq, ticks, grantLog, sentLog>>

TrialStep(i) == TrialCheck(i) \/ TrialSub(i) \/ TrialInsert(i)

\* claims handled concurrently
NextTrial ==
  \/ \E i \in Procs, u \in PayUsers : Slot(i) /\ StartClaimTrial(i, u)
  \/ \E i \in Procs : TrialStep(i)
  \/ \E i \in Procs : GrantStep(i)
  \/ Tick

SpecTrial == InitPay /\ [][NextTrial]_vars

\* C30: however the claims of one user are ordered or interleaved, at most
\* one of them extends the subscription.
C30_TrialGrantedOnce ==
  \A u \in PayUsers :
    Cardinality({n \in 1..Len(grantLog) :
                   grantLog[n].op = "trial" /\ grantLog[n].user = u}) <= 1

-----------------------------------------------------------------------------
(* Rejected claims of the trial (SpecTrial)                                *)

\* C31: a claim of the trial by a user who has a free_trials row, or whose
\* subscription is running, is answered 400 at the check that finds it, and
\* no step of a claim up to and including its rejection writes anything:
\* free_trials, subscriptions, vless_clients and server_allocations (and every
\* other table) stay as they were.
C31_RejectedClaimChangesNothing ==
  [][\A i \in Procs :
       LET r == proc[i]
           q == proc'[i]
       IN  /\ (r.pc = "t_check" /\ q # r) =>
                /\ tables' = tables /\ grantLog' = grantLog
                /\ r.user \in free_trials =>
                     (q.pc = "done" /\ q.resp = 400 /\ q.note = "already_claimed")
           /\ (r.pc = "t_sub" /\ q # r) =>
                /\ tables' = tables /\ grantLog' = grantLog
                /\ (r.user \in DOMAIN subscriptions
                      /\ subscriptions[r.user].until > now) =>
                     (q.pc = "done" /\ q.resp = 400 /\ q.note = "already_active")
           /\ (q.op = "trial" /\ q.pc = "done" /\ q.resp = 400 /\ q # r) =>
                r.pc \in {"t_check", "t_sub"}]_vars

\* C31 witness: a user whose trial was granted has claimed it again and been
\* refused; the one extension is the only one
C31_Witness ==
  \E i \in Procs :
    LET u == proc[i].user IN
      /\ proc[i].op = "trial" /\ proc[i].pc = "done"
      /\ proc[i].resp = 400 /\ proc[i].note = "already_claimed"
      /\ u \in free_trials
      /\ Cardinality({n \in 1..Len(grantLog) : grantLog[n].user = u}) = 1
      /\ subscriptions[u].until = grantLog[Len(grantLog)].until

-----------------------------------------------------------------------------
(* The two stored expiries (SpecCancel)                                    *)

\* /api/me, /api/vpn/link and /api/vpn/clients: a client row with
\* expires_at > now()
VlessActive(clients, u, clock) == u \in DOMAIN clients /\ clients[u] > clock

\* C32: whenever no grant or cancellation is in progress, every user is
\* active by subscriptions.until exactly when active by
\* vless_clients.expires_at.
C32_StoredExpiriesAgree ==
  Quiescent =>
    \A u \in PayUsers :
      SubMeActive(subscriptions, u, now) <=> VlessActive(vless_clients, u, now)

-----------------------------------------------------------------------------
(* SpecGrantAnyPlan: grants whose plan code the catalog may not hold       *)

\* the plan codes a request body may carry: one of the catalog, one not
RequestPlans == {"1m", "vip"}

NextGrantAnyPlan ==
  \/ \E u \in PayUsers, plan \in RequestPlans : Quiescent /\ StartAdminGrant(1, u, plan)
  \/ \E i \in Procs : GrantStep(i)
  \/ Tick

SpecGrantAnyPlan == InitExtend /\ [][NextGrantAnyPlan]_vars

\* C33: no subscription is written for a plan code outside the catalog (the
\* codes with a duration, 'w' and '1y' counted with '7d' and '12m').
C33_UnknownPlanWritesNothing ==
  \A n \in 1..Len(grantLog) : DurationDays(grantLog[n].plan) # 0

-----------------------------------------------------------------------------
(* SpecApaysAny: callbacks of any shape, handled concurrently              *)

\* the status field of a callback body; "" stands for a missing field
CallbackStatuses == {"approved", "declined", ""}

NextApaysAny ==
  \/ \E u \in PayUsers, plan \in PayPlans : PayCard(u, plan)
  \/ \E i \in Procs, o \in OrderIds, status \in CallbackStatuses, signOk \in BOOLEAN :
       Slot(i) /\ StartApays(i, o, status, signOk)
  \/ \E i \in Procs : ApaysRead(i)
  \/ \E i \in Procs : ApaysMark(i)
  \/ \E i \in Procs : ApaysPay(i)
  \/ \E i \in Procs : ApaysFail(i)
  \/ \E i \in Procs : GrantStep(i)

SpecApaysAny == InitPay /\ [][NextApaysAny]_vars

\* C34: a callback with a missing field or a wrong signature is answered 400
\* and one for an order that is not stored 404, each at the handler's first
\* step, which writes nothing, and no other step answers an error: such a
\* callback leaves every table as it was.  A declined callback that found its
\* order 'new' marks it 'failed', answers 200 and writes nothing else.
C34_BadCallbackChangesNothing ==
  [][\A i \in Procs :
       LET r == proc[i]
           q == proc'[i]
           wellFormed == r.status # "" /\ r.verified
       IN  /\ (r.pc = "a_read" /\ q # r) =>
                /\ tables' = tables /\ grantLog' = grantLog
                /\ ~wellFormed => (q.pc = "done" /\ q.resp = 400)
                /\ (wellFormed /\ r.ref \notin DOMAIN apays_orders) =>
                     (q.pc = "done" /\ q.resp = 404)
                /\ (wellFormed /\ r.ref \in DOMAIN apays_orders
                      /\ r.status = "declined") =>
                     (apays_orders[r.ref].status = "new" => q.pc = "a_fail")
           /\ (r.pc = "a_fail" /\ q # r) =>
                /\ apays_orders' = [apays_orders EXCEPT ![r.ref].status = "failed"]
                /\ payments' = payments /\ subscriptions' = subscriptions
                /\ vless_clients' = vless_clients
                /\ server_allocations' = server_allocations
                /\ grantLog' = grantLog
                /\ q.pc = "done" /\ q.resp = 200
           /\ (q.op = "apays" /\ q.pc = "done" /\ q # r /\ q.resp \in {400, 404}) =>
                r.pc = "a_read"]_vars

\* C34 witness: a callback with a wrong signature was refused, then a declined
\* one marked the new order failed; no payment and no extension was written
C34_Witness ==
  /\ proc[1].op = "apays" /\ proc[1].pc = "done" /\ proc[1].resp = 400
  /\ proc[2].op = "apays" /\ proc[2].pc = "done" /\ proc[2].note = "failed"
  /\ apays_orders[proc[2].ref].status = "failed"
  /\ payments = <<>>
  /\ grantLog = <<>>

-----------------------------------------------------------------------------
(* SpecOccupancy: who counts toward a server's occupancy                   *)

\* DELETE /admin/servers/:id: the row goes, and with it (on delete cascade)
\* the allocations to it
DeleteServer(k) ==
  /\ Quiescent
  /\ k \in DOMAIN servers
  /\ servers' = [x \in DOMAIN servers \ {k} |-> servers[x]]
  /\ server_allocations' =
       [u \in {x \in DOMAIN server_allocations : server_allocations[x] # k} |->
          server_allocations[u]]
  /\ UNCHANGED <<now, subscriptions, vless_clients, apays_orders, payments,
                 sub_notifications, purchases, env, free_trials, blocks, proc, nreq, ticks,
                 grantLog, sentLog>>

\* any pool; the users with an allocation hold the subscription whose grant
\* made it: user 1's expires within the hour, the others' in two days
InitOccupancy ==
  /\ InitQuiet
  /\ now \in PayStartTimes
  /\ servers \in [1..NumServers -> [active : BOOLEAN, slot_limit : 0..MaxSlotLimit]]
  /\ server_allocations \in StaleAllocations
  /\ subscriptions = [u \in DOMAIN server_allocations |->
                        [plan |-> "1m",
                         until |-> IF u = 1 THEN now + 1800 ELSE now + 2 * DaySec]]
  /\ vless_clients = [u \in DOMAIN subscriptions |-> subscriptions[u].until]
  /\ purchases = NoRows
  /\ env = [webhookSecret |-> FALSE]

\* grants, cancellations, expiry and the deletion of servers, one at a time
NextOccupancy ==
  \/ \E u \in HealUsers : Quiescent /\ StartAdminGrant(1, u, "1m")
  \/ \E i \in Procs : GrantStep(i)
  \/ \E u \in HealUsers : CancelMe(u)
  \/ \E u \in HealUsers : Quiescent /\ StartAdminCancel(1, u)
  \/ \E i \in Procs : AdminCancelStep(i)
  \/ \E k \in 1..NumServers : DeleteServer(k)
  \/ Tick

SpecOccupancy == InitOccupancy /\ [][NextOccupancy]_vars

\* C35: a cancellation (by the user or an admin) and the passing of time leave
\* server_allocations as it is; the occupancy of a server decreases only in a
\* step that deletes the server or moves one of its users to another server.
C35_OccupancyDropsOnlyOnReassignOrDelete ==
  [][/\ (subscriptions' # subscriptions /\ grantLog' = grantLog) =>
          server_allocations' = server_allocations
     /\ now' # now => server_allocations' = server_allocations
     /\ \A i \in Procs :
          (proc[i].op = "admin_cancel" /\ proc'[i] # proc[i]) =>
            server_allocations' = server_allocations
     /\ \A k \in DOMAIN servers :
          Occupancy(server_allocations', k) < Occupancy(server_allocations, k) =>
            \/ k \notin DOMAIN servers'
            \/ \E u \in DOMAIN server_allocations :
                 /\ server_allocations[u] = k
                 /\ u \in DOMAIN server_allocations'
                 /\ server_allocations'[u] # k]_vars

\* C35 witness: user 1's subscription has run out and still fills the one
\* slot of an active server; a grant made after that for another user did
\* not get that server
C35_Witness ==
  \E i \in Procs, k \in DOMAIN servers :
    LET v == proc[i].user IN
      /\ proc[i].pc = "done" /\ proc[i].op = "admin_grant" /\ v # 1
      /\ 1 \in DOMAIN server_allocations /\ server_allocations[1] = k
      /\ subscriptions[1].until < now
      /\ servers[k].active /\ servers[k].slot_limit = 1
      /\ proc[i].next # k
      /\ grantLog # <<>> /\ grantLog[Len(grantLog)].user = v
      /\ grantLog[Len(grantLog)].base = now /\ ticks = 1
      /\ Len(grantLog) = 1

-----------------------------------------------------------------------------
(* ensureUserServer never deletes an allocation (SpecAllocTwice)           *)

\* C36: no step of ensureUserServer removes a server_allocations row; a call
\* that found the user on a server it could not keep (inactive, or over its
\* slot_limit) while no active server has room returns null, and a call
\* that returns null leaves server_allocations as it was, the stale row
\* included.
C36_NullLeavesStaleAllocation ==
  [][/\ DOMAIN server_allocations \subseteq DOMAIN server_allocations'
     /\ \A i \in Procs :
          LET r == proc[i]
              q == proc'[i]
          IN  (r.op = "ensure" /\ r.pc # "done" /\ q.pc = "done") =>
                /\ (r.pc \in {"p_srv", "p_fill"} /\ r.sid # 0 /\ WithRoom = {}) =>
                     /\ q.next = 0 /\ q.note = "null"
                     /\ r.user \in DOMAIN server_allocations'
                     /\ server_allocations'[r.user] = r.sid
                /\ q.next = 0 => server_allocations' = server_allocations]_vars

\* C36 witness: a call found the user on an active server holding more than
\* its slot_limit, no server had room, and it returned null; the user is
\* still on that server
C36_Witness ==
  \E i \in Procs :
    LET u == proc[i].user
        k == proc[i].sid
    IN  /\ proc[i].op = "ensure" /\ proc[i].pc = "done" /\ proc[i].note = "null"
        /\ k # 0 /\ proc[i].next = 0
        /\ u \in DOMAIN server_allocations /\ server_allocations[u] = k
        /\ servers[k].active /\ servers[k].slot_limit # 0
        /\ Occupancy(server_allocations, k) > servers[k].slot_limit
        /\ WithRoom = {}

-----------------------------------------------------------------------------
(* SpecBlocked: blocks, and the operations that do not look at them        *)

\* POST /admin/block { userId, until }: insert ... on conflict do update
AdminBlock(u, until) ==
  /\ blocks' = Upsert(blocks, u, until)
  /\ UNCHANGED <<now, subscriptions, vless_clients, servers, server_allocations,
                 apays_orders, payments, sub_notifications, purchases, env,
                 free_trials, proc, nreq, ticks, grantLog, sentLog>>

\* POST /admin/unblock { userId }: delete from blocks
AdminUnblock(u) ==
  /\ u \in DOMAIN blocks
  /\ blocks' = [x \in DOMAIN blocks \ {u} |-> blocks[x]]
  /\ UNCHANGED <<now, subscriptions, vless_clients, servers, server_allocations,
                 apays_orders, payments, sub_notifications, purchases, env,
                 free_trials, proc, nreq, ticks, grantLog, sentLog>>

\* the until of a block: null, or a day from now
BlockUntils(clock) == {0, clock + DaySec}

\* card orders and their callbacks, /api/pay/confirm and claims of the trial,
\* one request at a time, while an admin blocks and unblocks users
NextBlocked ==
  \/ \E u \in PayUsers, until \in BlockUntils(now) : Quiescent /\ AdminBlock(u, until)
  \/ \E u \in PayUsers : Quiescent /\ AdminUnblock(u)
  \/ \E u \in PayUsers : PayCard(u, "1m")
  \/ \E o \in OrderIds : Quiescent /\ StartApays(1, o, "approved", TRUE)
  \/ \E i \in Procs : ApaysRead(i)
  \/ \E i \in Procs : ApaysMark(i)
  \/ \E i \in Procs : ApaysPay(i)
  \/ \E u \in PayUsers : Quiescent /\ ForgedConfirm(1, u, "1m")
  \/ \E i \in Procs : ConfirmPay(i)
  \/ \E u \in PayUsers : Quiescent /\ StartClaimTrial(1, u)
  \/ \E i \in Procs : TrialStep(i)
  \/ \E i \in Procs : GrantStep(i)

SpecBlocked == InitPay /\ [][NextBlocked]_vars

\* C37: in no step is the subscription of a user who is blocked extended or
\* created, or that user's allocation changed or created.
C37_BlockedUserIsFrozen ==
  [][\A u \in PayUsers :
       Blocked(blocks, u, now) =>
         /\ u \in DOMAIN subscriptions' =>
              /\ u \in DOMAIN subscriptions
              /\ subscriptions'[u].until <= subscriptions[u].until
         /\ u \in DOMAIN server_allocations' =>
              /\ u \in DOMAIN server_allocations
              /\ server_allocations'[u] = server_allocations[u]]_vars

-----------------------------------------------------------------------------
(* The length of the trial (SpecTrial)                                     *)

\* C38: a trial granted to a user with no running entitlement runs for seven
\* days: the until written is the time of the grant plus 7 days.
C38_TrialRunsSevenDays ==
  \A n \in 1..Len(grantLog) :
    grantLog[n].op = "trial" => grantLog[n].until = grantLog[n].base + 7 * DaySec

====
